---------------------------- MODULE Spec2Model ----------------------------
(***************************************************************************)
(* A model of the Solana deployment-time CLI core:                         *)
(*   - RpcService     (src/src/services/rpc-service.ts)                    *)
(*   - CacheService   (src/unnamed/part_002, i.e. cache-service.ts)        *)
(*   - ProgramService (src/src/services/program-service.ts)                *)
(* Every async method is cut at its awaits: one action is the code that    *)
(* runs between two awaits.  Times are epoch milliseconds, as Date.now().  *)
(***************************************************************************)
EXTENDS Integers, Sequences, FiniteSets, TLC

(***************************************************************************)
(* Bounds of the model.                                                    *)
(***************************************************************************)
\* Entries of BACKUP_RPC_URLS after split(',') (blank entries included).
MaxBackups == 2
\* Number of clock advances in one behaviour.
MaxTicks == 2
\* Length of the signature list getSignaturesForAddress returns.
MaxSignatures == 3
\* Number of clock advances in one behaviour of Spec.
MaxDetectTicks == 1
\* Date.now() when the process starts (any value beyond both periods).
StartTime == 1000000000

VARIABLES
    now,                  \* Date.now()
    ticks,                \* clock advances so far (bounded by MaxTicks)
    rpcError,             \* message thrown by the RpcService constructor, "" if none
    endpoints,            \* RpcService.endpoints
    currentEndpointIndex, \* RpcService.currentEndpointIndex (0-based)
    sel,                  \* frame of the running / last selection call
    prevSel,              \* op and result of the selection call before sel
    peer,                 \* a concurrent user: the frame of its selection
                          \* call and the Map of its own CacheService
    cache,                \* CacheService.cache (the in-memory Map)
    disk,                 \* the .cache directory and program-deployments.json
    lastCache,            \* the last CacheService call: arguments and return
    det                   \* frame of the running / last getDeploymentInfo call

timeVars == <<now, ticks>>
rpcVars == <<rpcError, endpoints, currentEndpointIndex, sel, prevSel, peer>>
cacheVars == <<cache, disk, lastCache>>
vars == <<now, ticks, rpcError, endpoints, currentEndpointIndex, sel, prevSel,
          peer, cache, disk, lastCache, det>>

(***************************************************************************)
(* Helpers.                                                                *)
(***************************************************************************)
\* Position of element i in the output of a stable ascending sort by keys.
Rank(keys, i) ==
    Cardinality({j \in DOMAIN keys :
                    keys[j] < keys[i] \/ (keys[j] = keys[i] /\ j < i)}) + 1

\* Array.prototype.sort with comparator (a, b) => key(a) - key(b): stable.
SortByKey(s, keys) ==
    [p \in 1..Len(s) |-> s[CHOOSE i \in 1..Len(s) : Rank(keys, i) = p]]

\* Number of occurrences of x in sequence s.
Count(s, x) == Cardinality({k \in DOMAIN s : s[k] = x})

(***************************************************************************)
(* Time.                                                                   *)
(***************************************************************************)
healthCheckInterval == 5 * 60 * 1000

cacheValidityPeriod == 24 * 60 * 60 * 1000

\* The clock advances by d milliseconds.
Tick(steps) ==
    /\ ticks < MaxTicks
    /\ \E d \in steps : now' = now + d
    /\ ticks' = ticks + 1

(***************************************************************************)
(* RpcService                                                              *)
(***************************************************************************)
NoHealthyMsg == "No healthy RPC endpoints available"
NoPrimaryMsg == "MAIN_RPC_URL environment variable is not set"

\* process.env as the constructor reads it: whether MAIN_RPC_URL is set and
\* non-empty, and for each entry of BACKUP_RPC_URLS.split(',') whether it is
\* non-empty after trim().
Envs ==
    [main : BOOLEAN,
     backups : UNION {[1..n -> BOOLEAN] : n \in 0..MaxBackups}]

\* The endpoint pushed for the primary url (url 0 stands for MAIN_RPC_URL).
PrimaryEndpoint ==
    [url |-> 0, priority |-> 1, isHealthy |-> TRUE, lastHealthCheck |-> 0]

\* Mutant of BackupEndpoint: every backup gets priority 2.
BackupEndpointFlatPriority(index) ==
    [url |-> index + 1, priority |-> 2,
     isHealthy |-> TRUE, lastHealthCheck |-> 0]

\* The endpoint pushed for backupUrls[index] (index 0-based as in forEach).
BackupEndpoint(index) ==
    [url |-> index + 1, priority |-> index + 2,
     isHealthy |-> TRUE, lastHealthCheck |-> 0]

\* backupUrls.forEach: push an endpoint for every non-blank entry.
RECURSIVE PushBackups(_, _)
PushBackups(backups, k) ==
    IF k > Len(backups) THEN <<>>
    ELSE (IF backups[k] THEN <<BackupEndpoint(k - 1)>> ELSE <<>>)
         \o PushBackups(backups, k + 1)

\* The endpoint list the constructor leaves, sorted by priority.
ConstructEndpoints(env) ==
    LET pushed == <<PrimaryEndpoint>> \o PushBackups(env.backups, 1)
    IN  SortByKey(pushed, [k \in DOMAIN pushed |-> pushed[k].priority])

\* The message the constructor throws, "" when it returns normally.
ConstructError(env) == IF env.main THEN "" ELSE NoPrimaryMsg

\* Responses of connection.getSlot(): a number, a non-number, or a throw.
SlotResponses ==
    {[kind |-> "number", value |-> 100],
     [kind |-> "number", value |-> 0],
     [kind |-> "number", value |-> -1],
     [kind |-> "other", value |-> 0],
     [kind |-> "throw", value |-> 0]}

\* Mutant of checkEndpointHealth: slot 0 passes for healthy.
checkEndpointHealthFromZero(response) ==
    response.kind = "number" /\ response.value >= 0

\* checkEndpointHealth: true only for a numeric slot greater than 0.
checkEndpointHealth(response) ==
    response.kind = "number" /\ response.value > 0

\* Mutant of HealthCheckDue: the interval is ignored and every considered
\* endpoint is probed.
HealthCheckAlwaysDue(endpoint, t) == TRUE

\* Mutant of HealthCheckDue: a check is due already when exactly the
\* interval has passed.
HealthCheckDueAtInterval(endpoint, t) ==
    t - endpoint.lastHealthCheck >= healthCheckInterval

\* Mutant of HealthCheckDue: an endpoint marked unhealthy is checked again
\* whenever it is considered.
HealthCheckDueWhenUnhealthy(endpoint, t) ==
    \/ ~endpoint.isHealthy
    \/ t - endpoint.lastHealthCheck > healthCheckInterval

\* Mutant of HealthCheckDue: an endpoint marked unhealthy is never checked
\* again.
HealthCheckDueIfHealthy(endpoint, t) ==
    /\ endpoint.isHealthy
    /\ t - endpoint.lastHealthCheck > healthCheckInterval

\* updateEndpointHealth's test: is a health check due at time t?
HealthCheckDue(endpoint, t) ==
    t - endpoint.lastHealthCheck > healthCheckInterval

NumEndpoints == Len(endpoints)

\* No selection call is in progress.
SelQuiet == sel.pc \in {"idle", "returned", "threw"}

\* The frame of no call.  considered, ages, probed and response record what
\* the call did; overlapped is set only where two calls run side by side.
IdleSel ==
    [op |-> "none", pc |-> "idle", caller |-> "none", i |-> 0, tried |-> 0,
     startIndex |-> 0, ep |-> 0, now |-> 0, result |-> -1, error |-> "",
     considered |-> <<>>, ages |-> <<>>, probed |-> <<>>, response |-> <<>>,
     overlapped |-> FALSE]

\* Mutant of LoopIndex: getHealthyConnection reads the round-robin cursor
\* instead of its own loop variable.
LoopIndexFromCursor(f, cursor) == cursor

\* The index the loop of the call is at: i in getHealthyConnection, the
\* cursor in getNextHealthyConnection.
LoopIndex(f, cursor) ==
    IF f.op = "getHealthyConnection" THEN f.i ELSE cursor

\* Mutant of LoopCondition: the loop has no bound.
LoopConditionUnbounded(f) == TRUE

\* Mutant of LoopCondition: the loop gives up one endpoint early.
LoopConditionOneShort(f) ==
    IF f.op = "getHealthyConnection" THEN f.i < NumEndpoints - 1
    ELSE f.tried < NumEndpoints - 1

\* The loop condition of the call.
LoopCondition(f) ==
    IF f.op = "getHealthyConnection" THEN f.i < NumEndpoints
    ELSE f.tried < NumEndpoints

\* From the loop head to the next await: leave the loop with the throw, or
\* take the endpoint and enter updateEndpointHealth, which either starts a
\* probe (await getSlot) or returns at once.
Consider(f, cursor) ==
    IF ~LoopCondition(f)
    THEN [f EXCEPT !.pc = "threw", !.error = NoHealthyMsg]
    ELSE LET idx == LoopIndex(f, cursor)
             endpoint == endpoints[idx + 1]
         IN  [f EXCEPT
                !.ep = idx,
                !.now = now,
                !.considered = Append(@, idx),
                !.ages = Append(@, now - endpoint.lastHealthCheck),
                !.probed = IF HealthCheckDue(endpoint, now)
                           THEN Append(@, idx) ELSE @,
                !.pc = IF HealthCheckDue(endpoint, now)
                       THEN "probe" ELSE "updated"]

\* The frame of a call of op that starts now.
StartFrame(op, caller) ==
    Consider([IdleSel EXCEPT !.op = op, !.caller = caller,
                             !.startIndex = currentEndpointIndex],
             currentEndpointIndex)

\* A selection call starts and runs to its first await.
StartSelection(op, caller) ==
    /\ rpcError = ""
    /\ SelQuiet
    /\ prevSel' = [op |-> sel.op, result |-> sel.result]
    /\ sel' = StartFrame(op, caller)
    /\ UNCHANGED <<rpcError, endpoints, currentEndpointIndex, peer>>

\* A caller of the RpcService calls getHealthyConnection.
CallGetHealthyConnection ==
    StartSelection("getHealthyConnection", "client")

\* A caller of the RpcService calls getNextHealthyConnection.
CallGetNextHealthyConnection ==
    StartSelection("getNextHealthyConnection", "client")

\* Mutant of ProbedEndpoint: the time of the check is kept only for a
\* healthy endpoint.
ProbedEndpointTimeIfHealthy(endpoint, response, t) ==
    [endpoint EXCEPT !.isHealthy = checkEndpointHealth(response),
                     !.lastHealthCheck =
                         IF checkEndpointHealth(response) THEN t ELSE @]

\* The endpoint after the probe answered: updateEndpointHealth lines 78-79.
ProbedEndpoint(endpoint, response, t) ==
    [endpoint EXCEPT !.isHealthy = checkEndpointHealth(response),
                     !.lastHealthCheck = t]

\* getSlot answers (or throws): updateEndpointHealth stores the health and
\* the time read before the probe.
ProbeReturns ==
    /\ sel.pc = "probe"
    /\ \E response \in SlotResponses :
          /\ endpoints' = [endpoints EXCEPT
                             ![sel.ep + 1] =
                                 ProbedEndpoint(@, response, sel.now)]
          /\ sel' = [sel EXCEPT !.pc = "updated", !.response = <<response>>]
    /\ UNCHANGED <<rpcError, currentEndpointIndex, prevSel, peer>>

\* Mutant of AdvanceCursor: the cursor is not moved past an unhealthy
\* endpoint.
AdvanceCursorStuck(cursor) == cursor

\* Mutant of CursorOnReturn: the cursor moves past the endpoint returned.
CursorOnReturnRotating(cursor) == (cursor + 1) % Len(endpoints)

\* Mutant of AdvanceCursor: the cursor is incremented without the modulo.
AdvanceCursorUnwrapped(cursor) == cursor + 1

\* The cursor after getNextHealthyConnection skipped an unhealthy endpoint.
AdvanceCursor(cursor) == (cursor + 1) % NumEndpoints

\* The cursor after a selection call returned an endpoint: neither method
\* moves it on the return path.
CursorOnReturn(cursor) == cursor

\* After await updateEndpointHealth: return the endpoint if healthy, else
\* move on and go round the loop to the next await (or to the throw).
ResumeSelection ==
    /\ sel.pc = "updated"
    /\ LET f == [sel EXCEPT !.response = <<>>]
       IN  IF endpoints[sel.ep + 1].isHealthy
           THEN /\ sel' = [f EXCEPT !.pc = "returned", !.result = sel.ep]
                /\ currentEndpointIndex' =
                       CursorOnReturn(currentEndpointIndex)
           ELSE IF sel.op = "getHealthyConnection"
           THEN /\ sel' = Consider([f EXCEPT !.i = @ + 1],
                                   currentEndpointIndex)
                /\ UNCHANGED currentEndpointIndex
           ELSE /\ currentEndpointIndex' =
                       AdvanceCursor(currentEndpointIndex)
                /\ sel' = Consider([f EXCEPT !.tried = @ + 1],
                                   AdvanceCursor(currentEndpointIndex))
    /\ UNCHANGED <<rpcError, endpoints, prevSel, peer>>

(***************************************************************************)
(* CacheService                                                            *)
(* A value that may be undefined is <<>> when undefined and <<v>> when v.  *)
(***************************************************************************)
TestProgram == "6EF8rrecthR5Dkzon8Nwu78hRvfCKubJ14M5uBEwF6P"
OtherProgram == "Prog222222222222222222222222222222222222222"

\* The program ids used as cache keys.
CacheKeys == {TestProgram, OtherProgram}

\* The program ids cacheDeployment is called with.
PutKeys == {TestProgram}

\* Arguments of cacheDeployment after the programId.
PutInputs ==
    {[deploymentSignature |-> "test-signature", deploymentSlot |-> 1000,
      deploymentTimestamp |-> 1600000000, isProgramData |-> TRUE,
      programDataAccount |-> <<"test-program-data">>],
     [deploymentSignature |-> "legacy-signature", deploymentSlot |-> 5,
      deploymentTimestamp |-> 0, isProgramData |-> FALSE,
      programDataAccount |-> <<>>]}

\* Map of the in-memory cache.
EmptyMap == [k \in {} |-> <<>>]

\* No concurrent user: no second selection call, and no second CacheService
\* constructed.  persisted is the set of programIds that a cacheDeployment
\* call of either CacheService has written to the cache file, lastWriter
\* the CacheService whose saveCache wrote the file last.
NoPeer ==
    [sel |-> IdleSel, cache |-> EmptyMap, loaded |-> FALSE,
     persisted |-> {}, lastWriter |-> "none"]

\* Map.get: undefined when the key is absent.
MapGet(mp, k) == IF k \in DOMAIN mp THEN <<mp[k]>> ELSE <<>>

\* Mutant of MapSet: the new entry is merged into the entry stored, whose
\* programDataAccount survives when the new entry has none.
MapSetMerging(mp, k, v) ==
    [x \in DOMAIN mp \cup {k} |->
        IF x # k THEN mp[x]
        ELSE IF k \in DOMAIN mp /\ v.programDataAccount = <<>>
        THEN [v EXCEPT !.programDataAccount = mp[k].programDataAccount]
        ELSE v]

\* Map.set.
MapSet(mp, k, v) == [x \in DOMAIN mp \cup {k} |-> IF x = k THEN v ELSE mp[x]]

\* Map.delete.
MapDelete(mp, k) == [x \in DOMAIN mp \ {k} |-> mp[x]]

\* The properties of a CacheEntry that may hold undefined.
OptionalFields == {"lastChecked", "programDataAccount"}

EntryFields ==
    {"programId", "deploymentSignature", "deploymentSlot",
     "deploymentTimestamp", "lastChecked", "isProgramData",
     "programDataAccount"}

\* Mutant of NewEntry: a missing programDataAccount is stored as the empty
\* string.
NewEntryEmptyString(programId, input, t) ==
    [programId |-> programId,
     deploymentSignature |-> input.deploymentSignature,
     deploymentSlot |-> input.deploymentSlot,
     deploymentTimestamp |-> input.deploymentTimestamp,
     lastChecked |-> <<t>>,
     isProgramData |-> input.isProgramData,
     programDataAccount |-> IF input.programDataAccount = <<>>
                            THEN <<"">> ELSE input.programDataAccount]

\* The entry cacheDeployment builds at time t.
NewEntry(programId, input, t) ==
    [programId |-> programId,
     deploymentSignature |-> input.deploymentSignature,
     deploymentSlot |-> input.deploymentSlot,
     deploymentTimestamp |-> input.deploymentTimestamp,
     lastChecked |-> <<t>>,
     isProgramData |-> input.isProgramData,
     programDataAccount |-> input.programDataAccount]

\* Mutant of StringifyEntry: a property holding undefined is written as the
\* empty string.
StringifyEntryBlanks(entry) ==
    [f \in EntryFields |->
        IF f \in OptionalFields
        THEN (IF entry[f] = <<>> THEN "" ELSE entry[f][1])
        ELSE entry[f]]

\* JSON.stringify of one entry: a property holding undefined is left out.
StringifyEntry(entry) ==
    [f \in {g \in EntryFields : g \in OptionalFields => entry[g] # <<>>} |->
        IF f \in OptionalFields THEN entry[f][1] ELSE entry[f]]

\* The entry read back from its JSON text: a property the text lacks reads
\* as undefined.
ParseEntry(text) ==
    [f \in EntryFields |->
        IF f \in OptionalFields
        THEN (IF f \in DOMAIN text THEN <<text[f]>> ELSE <<>>)
        ELSE text[f]]

\* JSON.stringify(Object.fromEntries(cache)).
StringifyCache(mp) ==
    [kind |-> "json", entries |-> [k \in DOMAIN mp |-> StringifyEntry(mp[k])]]

\* new Map(Object.entries(JSON.parse(data))).
ParseDocument(doc) == [k \in DOMAIN doc.entries |-> ParseEntry(doc.entries[k])]

\* File content that JSON.parse rejects, such as "not json".
GarbageDocument == [kind |-> "garbage", entries |-> EmptyMap]

\* Mutant of loadCache: content that is not a JSON object is not rejected
\* and leaves an entry in the Map.
loadCacheKeepsGarbage(dsk) ==
    IF dsk.file = <<>> THEN EmptyMap
    ELSE IF dsk.file[1].kind = "json" THEN ParseDocument(dsk.file[1])
    ELSE [k \in {"0"} |->
            [f \in EntryFields |-> IF f \in OptionalFields THEN <<>> ELSE "n"]]

\* loadCache: the Map the constructor leaves.
loadCache(dsk) ==
    IF dsk.file = <<>> THEN EmptyMap
    ELSE IF dsk.file[1].kind = "json" THEN ParseDocument(dsk.file[1])
    ELSE EmptyMap

\* loadCache creates the cache directory when it is missing (mkdirSync).
DiskAfterLoad(dsk, mkdirOk) ==
    IF ~dsk.dir /\ mkdirOk THEN [dsk EXCEPT !.dir = TRUE] ELSE dsk

\* What can happen to the file system calls of saveCache.
SaveOutcomes(dsk) ==
    IF dsk.dir THEN {"ok", "writeFails"} ELSE {"ok", "writeFails", "mkdirFails"}

\* Mutant of saveCache: the entries of the file that the Map lacks are kept
\* in the file.
saveCacheMerging(mp, dsk, outcome) ==
    IF ~dsk.dir /\ outcome = "mkdirFails" THEN dsk
    ELSE IF outcome = "writeFails" THEN [dsk EXCEPT !.dir = TRUE]
    ELSE LET old == IF dsk.file # <<>> /\ dsk.file[1].kind = "json"
                    THEN dsk.file[1].entries ELSE EmptyMap
             new == StringifyCache(mp).entries
         IN  [dir |-> TRUE,
              file |-> <<[kind |-> "json",
                          entries |->
                              [k \in DOMAIN old \cup DOMAIN new |->
                                  IF k \in DOMAIN new THEN new[k]
                                  ELSE old[k]]]>>]

\* saveCache: the disk after writing mp; a failure is caught and logged.
saveCache(mp, dsk, outcome) ==
    IF ~dsk.dir /\ outcome = "mkdirFails" THEN dsk
    ELSE IF outcome = "writeFails" THEN [dsk EXCEPT !.dir = TRUE]
    ELSE [dir |-> TRUE, file |-> <<StringifyCache(mp)>>]

\* Mutant of IsExpired: an entry exactly 24 h old already counts as expired.
IsExpiredAtBoundary(entry, t) ==
    /\ entry.lastChecked # <<>>
    /\ t - entry.lastChecked[1] >= cacheValidityPeriod

\* The test of getCachedDeployment: Date.now() - lastChecked > 24 h (false
\* when lastChecked is not a number).
IsExpired(entry, t) ==
    /\ entry.lastChecked # <<>>
    /\ t - entry.lastChecked[1] > cacheValidityPeriod

\* The test of getCacheStats: now - lastChecked <= 24 h (false when
\* lastChecked is not a number).
IsValid(entry, t) ==
    /\ entry.lastChecked # <<>>
    /\ t - entry.lastChecked[1] <= cacheValidityPeriod

NoStats == [total |-> 0, valid |-> 0, expired |-> 0]

\* The record of a CacheService call: its arguments, the time it read,
\* the entry it found, what it returned, how saveCache and the removal of
\* the files went, and in prev the op of the call before it.
NoCacheCall ==
    [op |-> "none", programId |-> "", at |-> 0, before |-> <<>>,
     input |-> <<>>, ret |-> <<>>, save |-> "none", removal |-> "none",
     stats |-> NoStats, prev |-> "none"]

\* The call that precedes the one being made.
PrevCall == lastCache.op

\* getCachedDeployment(programId).
getCachedDeployment(programId) ==
    LET entry == MapGet(cache, programId)
        call == [NoCacheCall EXCEPT !.op = "getCachedDeployment",
                                    !.programId = programId,
                                    !.at = now, !.before = entry,
                                    !.prev = PrevCall]
    IN  IF entry = <<>>
        THEN /\ lastCache' = call
             /\ UNCHANGED <<cache, disk>>
        ELSE IF IsExpired(entry[1], now)
        THEN /\ cache' = MapDelete(cache, programId)
             /\ \E outcome \in SaveOutcomes(disk) :
                   /\ disk' = saveCache(cache', disk, outcome)
                   /\ lastCache' = [call EXCEPT !.save = outcome]
        ELSE /\ lastCache' = [call EXCEPT !.ret = entry]
             /\ UNCHANGED <<cache, disk>>

\* cacheDeployment(programId, ...input).
cacheDeployment(programId, input) ==
    /\ cache' = MapSet(cache, programId, NewEntry(programId, input, now))
    /\ \E outcome \in SaveOutcomes(disk) :
          /\ disk' = saveCache(cache', disk, outcome)
          /\ lastCache' = [NoCacheCall EXCEPT
                             !.op = "cacheDeployment",
                             !.programId = programId, !.at = now,
                             !.before = MapGet(cache, programId),
                             !.input = <<input>>,
                             !.save = outcome, !.prev = PrevCall]

\* The disk after clearCache's removal of the file and the directory; a
\* failing unlinkSync skips rmdirSync, and both failures are only logged.
RemoveCacheFiles(dsk, removal) ==
    LET unlinked == IF dsk.file # <<>> /\ removal # "unlinkFails"
                    THEN [dsk EXCEPT !.file = <<>>] ELSE dsk
    IN  IF dsk.file # <<>> /\ removal = "unlinkFails" THEN dsk
        ELSE IF unlinked.dir /\ removal = "ok"
        THEN [dir |-> FALSE, file |-> <<>>]
        ELSE unlinked

\* Mutant of clearCache: the map is emptied only when the files could be
\* removed.
clearCacheUndoneOnFailure ==
    \E outcome \in SaveOutcomes(disk),
       removal \in {"ok", "unlinkFails", "rmdirFails"} :
        /\ cache' = IF removal = "ok" THEN EmptyMap ELSE cache
        /\ disk' = RemoveCacheFiles(saveCache(cache', disk, outcome), removal)
        /\ lastCache' = [NoCacheCall EXCEPT !.op = "clearCache",
                                            !.at = now, !.save = outcome,
                                            !.removal = removal,
                                            !.prev = PrevCall]

\* clearCache().
clearCache ==
    /\ cache' = EmptyMap
    /\ \E outcome \in SaveOutcomes(disk),
          removal \in {"ok", "unlinkFails", "rmdirFails"} :
          /\ disk' = RemoveCacheFiles(saveCache(cache', disk, outcome), removal)
          /\ lastCache' = [NoCacheCall EXCEPT !.op = "clearCache",
                                              !.at = now, !.save = outcome,
                                              !.removal = removal,
                                              !.prev = PrevCall]

\* The object getCacheStats returns at time t.
CacheStats(mp, t) ==
    [total |-> Cardinality(DOMAIN mp),
     valid |-> Cardinality({k \in DOMAIN mp : IsValid(mp[k], t)}),
     expired |-> Cardinality({k \in DOMAIN mp : ~IsValid(mp[k], t)})]

\* Mutant of getCacheStats: the entries counted as expired are removed
\* from the map.
getCacheStatsEvicting ==
    /\ lastCache' = [NoCacheCall EXCEPT !.op = "getCacheStats", !.at = now,
                                        !.stats = CacheStats(cache, now),
                                        !.prev = PrevCall]
    /\ cache' = [k \in {x \in DOMAIN cache : IsValid(cache[x], now)} |->
                    cache[k]]
    /\ UNCHANGED disk

\* getCacheStats().
getCacheStats ==
    /\ lastCache' = [NoCacheCall EXCEPT !.op = "getCacheStats", !.at = now,
                                        !.stats = CacheStats(cache, now),
                                        !.prev = PrevCall]
    /\ UNCHANGED <<cache, disk>>

\* The documents a cache file may hold when the process starts: entries
\* written by an earlier run at or just beyond the validity period, and an
\* entry without lastChecked.
InitialEntries(programId) ==
    LET input == CHOOSE i \in PutInputs : i.deploymentTimestamp = 0
        written(t) == StringifyEntry(NewEntry(programId, input, t))
    IN  {written(StartTime - cacheValidityPeriod),
         written(StartTime - cacheValidityPeriod - 1),
         [f \in DOMAIN written(0) \ {"lastChecked"} |-> written(0)[f]]}

InitialDocuments ==
    {GarbageDocument} \cup
    {[kind |-> "json", entries |-> m] :
        m \in UNION {{f \in [keys -> UNION {InitialEntries(k) : k \in keys}] :
                         \A k \in keys : f[k] \in InitialEntries(k)} :
                        keys \in SUBSET CacheKeys}}

\* The disk before the CacheService is constructed.
InitialDisks ==
    {[dir |-> FALSE, file |-> <<>>], [dir |-> TRUE, file |-> <<>>]} \cup
    {[dir |-> TRUE, file |-> <<d>>] : d \in InitialDocuments}

\* new CacheService(): the constructor runs loadCache.
InitCache ==
    \E dsk \in InitialDisks, mkdirOk \in BOOLEAN :
        /\ cache = loadCache(dsk)
        /\ disk = DiskAfterLoad(dsk, mkdirOk)
        /\ lastCache = NoCacheCall

\* A CacheService constructed where no cache directory exists yet.
InitCacheEmpty ==
    /\ cache = loadCache([dir |-> FALSE, file |-> <<>>])
    /\ disk = DiskAfterLoad([dir |-> FALSE, file |-> <<>>], TRUE)
    /\ lastCache = NoCacheCall

(***************************************************************************)
(* ProgramService                                                          *)
(***************************************************************************)
TokenProgram == "TokenkegQfeZyiNwAJbNbGKPFXCWuBvf9Ss623VQ5DA"
SystemProgram == "11111111111111111111111111111111"
BPFLoader2 == "BPFLoader2111111111111111111111111111111111"
BPFLoaderUpgradeable == "BPFLoaderUpgradeab1e11111111111111111111111"

NATIVE_PROGRAMS ==
    {TokenProgram,
     "ComputeBudget111111111111111111111111111111",
     BPFLoader2,
     "BPFLoader1111111111111111111111111111111111",
     "Feature111111111111111111111111111111111111",
     "NativeLoader1111111111111111111111111111111",
     "Sysvar1111111111111111111111111111111111111",
     SystemProgram,
     "Config1111111111111111111111111111111111111",
     "Stake11111111111111111111111111111111111111",
     "Vote111111111111111111111111111111111111111",
     "AddressLookupTab1e1111111111111111111111111",
     BPFLoaderUpgradeable,
     "Ed25519SigVerify111111111111111111111111111",
     "KeccakSecp256k11111111111111111111111111111",
     "Secp256r1SigVerify1111111111111111111111111"}

BPF_LOADER_PROGRAMS ==
    {BPFLoader2,
     "BPFLoader1111111111111111111111111111111111",
     BPFLoaderUpgradeable}

\* Mutant of isNativeProgram: no program id is recognised as native.
isNativeProgramNever(programId) == FALSE

isNativeProgram(programId) == programId \in NATIVE_PROGRAMS

\* Mutant of AccountAbsent: a null value is not noticed.
AccountAbsentIgnored(response) == FALSE

\* !accountInfo.value of getDeploymentInfo.
AccountAbsent(response) == response.kind = "absent"

\* Mutant of isProgramAccount: every owner passes for a loader.
isProgramAccountAny(owner) == TRUE

isProgramAccount(owner) == owner \in BPF_LOADER_PROGRAMS

maxAttempts == 3

AccountNotFoundMsg == "Account not found"
NotAProgramMsg ==
    "Not a program account. This appears to be a regular account or token."
CouldNotFindMsg == "Could not find deployment transaction"
RpcFailureMsg == "fetch failed"

\* The program ids getDeploymentInfo is called with.
DetectIds == NATIVE_PROGRAMS \cup {TestProgram}

\* Answers of getParsedAccountInfo: a throw, value null, or an account
\* with its owner and the programData address of its parsed data.
AccountResponses ==
    {[kind |-> "throw", owner |-> "", programData |-> <<>>],
     [kind |-> "absent", owner |-> "", programData |-> <<>>],
     [kind |-> "account", owner |-> TokenProgram, programData |-> <<>>],
     [kind |-> "account", owner |-> BPFLoader2, programData |-> <<>>],
     [kind |-> "account", owner |-> BPFLoaderUpgradeable,
      programData |-> <<"test-program-data">>]}

\* A log line is the set of the strings searched for that it contains.
DeployedLine == {"Deployed program"}
DeployWithIdLine == {"Deploy with ID"}

\* The transaction getParsedTransaction returns: null, one without
\* meta.logMessages, or one with log lines.
NullTx == [present |-> FALSE, logMessages |-> <<>>]
NoLogsTx == [present |-> TRUE, logMessages |-> <<>>]
LogsTx(lines) == [present |-> TRUE, logMessages |-> <<lines>>]

\* log.includes(text).
Includes(log, text) == text \in log

\* logMessages.some(...) of findDeploymentTransaction.
isDeployment(logMessages, programId) ==
    \E k \in DOMAIN logMessages :
        \/ Includes(logMessages[k], "Deployed program")
        \/ Includes(logMessages[k], "Deploy with ID")
        \/ (Includes(logMessages[k], programId)
              /\ Includes(logMessages[k], "success"))

\* The transactions of the ledger the model draws from.
Transactions(programId) ==
    {NullTx,
     NoLogsTx,
     LogsTx(<<{}>>),
     LogsTx(<<{}, DeployedLine>>),
     LogsTx(<<{programId}, {"success"}>>),
     LogsTx(<<{programId, "success"}>>)}

Slots == {2, 5, 9}

\* blockTime of a signature: null for the oldest slot.
BlockTimeAt(slot) == IF slot = 2 THEN <<>> ELSE <<1600000000 + slot>>

\* An element of a signature list: signature, slot and blockTime as
\* getSignaturesForAddress returns them, and in tx the transaction that
\* getParsedTransaction returns for the signature.
SignatureInfo(signature, slot, tx) ==
    [signature |-> signature, slot |-> slot,
     blockTime |-> BlockTimeAt(slot), tx |-> tx]

\* All lists of exactly n signatures, in the order the RPC returns them
\* (the k-th signature is named k).
ListsOfLength(n, programId) ==
    {[k \in 1..n |-> SignatureInfo(k, choice[k][1], choice[k][2])] :
        choice \in [1..n -> Slots \X Transactions(programId)]}

\* Mutant of SortedSignatures: the list is scanned in the order returned.
SortedSignaturesUnsorted(signatures) == signatures

\* signatures.sort((a, b) => (a.slot || 0) - (b.slot || 0)).
SortedSignatures(signatures) ==
    SortByKey(signatures, [k \in DOMAIN signatures |-> signatures[k].slot])

\* The object findDeploymentTransaction returns for a matching signature.
DeploymentInfoOf(sig) ==
    [signature |-> sig.signature,
     slot |-> sig.slot,
     timestamp |-> IF sig.blockTime = <<>> THEN 0 ELSE sig.blockTime[1],
     programDataAccount |-> <<>>]

\* The object getDeploymentInfo builds from a cache entry.
DeploymentInfoOfEntry(entry) ==
    [signature |-> entry.deploymentSignature,
     slot |-> entry.deploymentSlot,
     timestamp |-> entry.deploymentTimestamp,
     programDataAccount |-> entry.programDataAccount]

\* Mutant of CachedInfoFound: an entry with timestamp 0 counts as none.
CachedInfoFoundWithTime(ret) ==
    ret # <<>> /\ ret[1].deploymentTimestamp # 0

\* if (cachedInfo): getCachedDeployment returned an entry, not null.
CachedInfoFound(ret) == ret # <<>>

\* Mutant of TargetAccountOf: the program account itself is always scanned.
TargetAccountAlwaysProgram(programId, programData) == programId

\* The account whose signatures are fetched: the programData account when
\* the parsed account data names one, the program account otherwise.
TargetAccountOf(programId, programData) ==
    IF programData # <<>> THEN programData[1] ELSE programId

\* Mutant of CacheInputOf: the programData address is not handed on.
CacheInputOfWithoutProgramData(info, programData) ==
    [deploymentSignature |-> info.signature,
     deploymentSlot |-> info.slot,
     deploymentTimestamp |-> info.timestamp,
     isProgramData |-> programData # <<>>,
     programDataAccount |-> <<>>]

\* The arguments of cacheDeployment after a successful scan.
CacheInputOf(info, programData) ==
    [deploymentSignature |-> info.signature,
     deploymentSlot |-> info.slot,
     deploymentTimestamp |-> info.timestamp,
     isProgramData |-> programData # <<>>,
     programDataAccount |-> programData]

NoOps ==
    [cacheReads |-> 0, cacheWrites |-> 0, acquisitions |-> 0,
     probes |-> 0, rpcCalls |-> 0]

NoResult == [kind |-> "none", info |-> <<>>, error |-> ""]

\* The answers noted during a getDeploymentInfo call: the number of times
\* getParsedAccountInfo gave value null and gave an account whose owner is
\* no loader, and how the findDeploymentTransaction of the current attempt
\* came to return null without an error: "empty" for an empty signature
\* list, "noMatch" for a walk that ended without a deployment.
NoAnswers == [absent |-> 0, foreignOwner |-> 0, history |-> ""]

IdleDet ==
    [pc |-> "idle", programId |-> "", attempts |-> 0, lastError |-> "",
     connection |-> -1, programData |-> <<>>, targetAccount |-> "",
     signatures |-> <<>>, scanIdx |-> 0, fetched |-> <<>>,
     result |-> NoResult, ops |-> NoOps, answers |-> NoAnswers]

\* No getDeploymentInfo call is in progress.
DetQuiet == det.pc \in {"idle", "done"}

\* The frame with one more of the counted operations.
Counted(f, field, n) == [f EXCEPT !.ops[field] = @ + n]

\* The frame when getDeploymentInfo returns info / returns null for a
\* native program / throws error.
Returned(f, info) ==
    [f EXCEPT !.pc = "done",
              !.result = [kind |-> "info", info |-> <<info>>, error |-> ""]]

ReturnedNative(f) ==
    [f EXCEPT !.pc = "done",
              !.result = [kind |-> "native", info |-> <<>>, error |-> ""]]

Thrown(f, error) ==
    [f EXCEPT !.pc = "done",
              !.result = [kind |-> "error", info |-> <<>>, error |-> error]]

\* An attempt starts at the head of the while loop: the call of
\* getNextHealthyConnection, up to its first await.
BeginAttempt(f) ==
    /\ StartSelection("getNextHealthyConnection", "detect")
    /\ det' = Counted(Counted([f EXCEPT !.pc = "acquire"],
                              "acquisitions", 1),
                      "probes", Len(sel'.probed))

\* Mutant of AttemptFails: the loop runs while attempts <= maxAttempts.
AttemptFailsOneMore(f, error) ==
    LET g == [f EXCEPT !.lastError = error, !.attempts = @ + 1]
    IN  IF g.attempts <= maxAttempts
        THEN BeginAttempt(g)
        ELSE /\ det' = Thrown(g, g.lastError)
             /\ UNCHANGED rpcVars

\* The catch block: the error is kept, the attempt counted, and the loop
\* either starts the next attempt or ends with the throw of lastError.
AttemptFails(f, error) ==
    LET g == [f EXCEPT !.lastError = error, !.attempts = @ + 1]
    IN  IF g.attempts < maxAttempts
        THEN BeginAttempt(g)
        ELSE /\ det' = Thrown(g, g.lastError)
             /\ UNCHANGED rpcVars

\* getDeploymentInfo(programId) up to its return or its first await.
CallGetDeploymentInfo ==
    /\ DetQuiet
    /\ rpcError = ""
    /\ \E programId \in DetectIds :
          LET f == [IdleDet EXCEPT !.programId = programId]
          IN  IF isNativeProgram(programId)
              THEN /\ det' = ReturnedNative(f)
                   /\ UNCHANGED <<rpcVars, cacheVars>>
              ELSE /\ getCachedDeployment(programId)
                   /\ LET g == Counted(Counted(f, "cacheReads", 1),
                                       "cacheWrites",
                                       IF lastCache'.save = "none"
                                       THEN 0 ELSE 1)
                      IN  IF CachedInfoFound(lastCache'.ret)
                          THEN /\ det' = Returned(g, DeploymentInfoOfEntry(
                                                        lastCache'.ret[1]))
                               /\ UNCHANGED rpcVars
                          ELSE BeginAttempt(g)
    /\ UNCHANGED timeVars

\* A step of the selection call that getDeploymentInfo awaits.
SelectionProbeReturns ==
    /\ det.pc = "acquire"
    /\ ProbeReturns
    /\ UNCHANGED <<det, cacheVars, timeVars>>

SelectionResumes ==
    /\ det.pc = "acquire"
    /\ ResumeSelection
    /\ det' = Counted(det, "probes", Len(sel'.probed) - Len(sel.probed))
    /\ UNCHANGED <<cacheVars, timeVars>>

\* getNextHealthyConnection returned: getParsedAccountInfo is called.
ConnectionAcquired ==
    /\ det.pc = "acquire"
    /\ sel.pc = "returned"
    /\ det' = Counted([det EXCEPT !.pc = "accountInfo",
                                  !.connection = sel.result],
                      "rpcCalls", 1)
    /\ UNCHANGED <<rpcVars, cacheVars, timeVars>>

\* getNextHealthyConnection threw: the attempt fails.
AcquisitionFailed ==
    /\ det.pc = "acquire"
    /\ sel.pc = "threw"
    /\ AttemptFails(det, sel.error)
    /\ UNCHANGED <<cacheVars, timeVars>>

\* The frame with the answer of getParsedAccountInfo counted.
Answered(f, response) ==
    IF response.kind = "absent"
    THEN [f EXCEPT !.answers.absent = @ + 1]
    ELSE IF response.kind = "account"
            /\ response.owner \notin BPF_LOADER_PROGRAMS
    THEN [f EXCEPT !.answers.foreignOwner = @ + 1]
    ELSE f

\* getParsedAccountInfo answered: the account checks, the choice of the
\* target account, and the call of getSignaturesForAddress.
AccountInfoReturns ==
    /\ det.pc = "accountInfo"
    /\ \E response \in AccountResponses :
          IF response.kind = "throw"
          THEN AttemptFails(det, RpcFailureMsg)
          ELSE IF AccountAbsent(response)
          THEN AttemptFails(Answered(det, response), AccountNotFoundMsg)
          ELSE IF ~isProgramAccount(response.owner)
          THEN AttemptFails(Answered(det, response), NotAProgramMsg)
          ELSE /\ det' = Counted(
                      [Answered(det, response) EXCEPT
                         !.pc = "signatures",
                         !.answers.history = "",
                         !.programData = response.programData,
                         !.targetAccount =
                             TargetAccountOf(det.programId,
                                             response.programData),
                         !.signatures = <<>>, !.scanIdx = 0,
                         !.fetched = <<>>],
                      "rpcCalls", 1)
               /\ UNCHANGED rpcVars
    /\ UNCHANGED <<cacheVars, timeVars>>

\* The frame when getParsedTransaction is called for signatures[k].
Fetching(f, k) ==
    Counted([f EXCEPT !.pc = "transaction", !.scanIdx = k,
                      !.fetched = Append(@, f.signatures[k].signature)],
            "rpcCalls", 1)

\* getSignaturesForAddress threw: findDeploymentTransaction catches the
\* error and returns null, and the attempt fails.
SignaturesThrow ==
    /\ det.pc = "signatures"
    /\ AttemptFails(det, CouldNotFindMsg)
    /\ UNCHANGED <<cacheVars, timeVars>>

\* getSignaturesForAddress answered with one of histories: an empty list
\* ends the attempt, any other is sorted by slot and its first transaction
\* fetched.
SignaturesReturn(histories) ==
    /\ det.pc = "signatures"
    /\ \E signatures \in histories :
          IF Len(signatures) = 0
          THEN AttemptFails([det EXCEPT !.answers.history = "empty"],
                            CouldNotFindMsg)
          ELSE /\ det' = Fetching(
                      [det EXCEPT !.signatures = SortedSignatures(signatures)],
                      1)
               /\ UNCHANGED rpcVars
    /\ UNCHANGED <<cacheVars, timeVars>>

\* getParsedTransaction threw: findDeploymentTransaction catches the error
\* and returns null, and the attempt fails.
TransactionThrows ==
    /\ det.pc = "transaction"
    /\ AttemptFails(det, CouldNotFindMsg)
    /\ UNCHANGED <<cacheVars, timeVars>>

\* Mutant of NotTheDeployment: a transaction that is null or without logs
\* is taken for the deployment.
NotTheDeploymentUnlessSilent(tx, programId) ==
    /\ tx.present
    /\ tx.logMessages # <<>>
    /\ ~isDeployment(tx.logMessages[1], programId)

\* Mutant of NotTheDeployment: the scan passes over every transaction.
NeverTheDeployment(tx, programId) == TRUE

\* Does the loop body of the scan skip or pass over this transaction?
NotTheDeployment(tx, programId) ==
    \/ ~tx.present
    \/ tx.logMessages = <<>>
    \/ ~isDeployment(tx.logMessages[1], programId)

\* Mutant of TransactionReturns: a walk that ends without a deployment
\* caches the last signature it looked at before the attempt fails.
TransactionReturnsCachingMiss ==
    /\ det.pc = "transaction"
    /\ LET sig == det.signatures[det.scanIdx]
       IN  IF NotTheDeployment(sig.tx, det.programId)
           THEN IF det.scanIdx < Len(det.signatures)
                THEN /\ det' = Fetching(det, det.scanIdx + 1)
                     /\ UNCHANGED <<rpcVars, cacheVars>>
                ELSE /\ cacheDeployment(det.programId,
                                        CacheInputOf(DeploymentInfoOf(sig),
                                                     det.programData))
                     /\ AttemptFails(
                            [det EXCEPT !.answers.history = "noMatch"],
                            CouldNotFindMsg)
           ELSE /\ cacheDeployment(det.programId,
                                   CacheInputOf(DeploymentInfoOf(sig),
                                                det.programData))
                /\ det' = Returned(Counted(det, "cacheWrites", 1),
                                   DeploymentInfoOf(sig))
                /\ UNCHANGED rpcVars
    /\ UNCHANGED timeVars

\* Mutant of TransactionReturns: a failing write of the cache document
\* makes cacheDeployment throw, and the attempt fails.
TransactionReturnsWriteThrows ==
    /\ det.pc = "transaction"
    /\ LET sig == det.signatures[det.scanIdx]
       IN  IF NotTheDeployment(sig.tx, det.programId)
           THEN IF det.scanIdx < Len(det.signatures)
                THEN /\ det' = Fetching(det, det.scanIdx + 1)
                     /\ UNCHANGED <<rpcVars, cacheVars>>
                ELSE /\ AttemptFails(det, CouldNotFindMsg)
                     /\ UNCHANGED cacheVars
           ELSE /\ cacheDeployment(det.programId,
                                   CacheInputOf(DeploymentInfoOf(sig),
                                                det.programData))
                /\ IF lastCache'.save = "ok"
                   THEN /\ det' = Returned(Counted(det, "cacheWrites", 1),
                                           DeploymentInfoOf(sig))
                        /\ UNCHANGED rpcVars
                   ELSE AttemptFails(Counted(det, "cacheWrites", 1),
                                     "Write failed")
    /\ UNCHANGED timeVars

\* getParsedTransaction answered for signatures[scanIdx]: a transaction
\* without logs or without a deployment line moves the scan on (and past
\* the last signature the attempt fails); the deployment is cached and
\* returned.
TransactionReturns ==
    /\ det.pc = "transaction"
    /\ LET sig == det.signatures[det.scanIdx]
       IN  IF NotTheDeployment(sig.tx, det.programId)
           THEN IF det.scanIdx < Len(det.signatures)
                THEN /\ det' = Fetching(det, det.scanIdx + 1)
                     /\ UNCHANGED <<rpcVars, cacheVars>>
                ELSE /\ AttemptFails(
                            [det EXCEPT !.answers.history = "noMatch"],
                            CouldNotFindMsg)
                     /\ UNCHANGED cacheVars
           ELSE /\ cacheDeployment(det.programId,
                                   CacheInputOf(DeploymentInfoOf(sig),
                                                det.programData))
                /\ det' = Returned(Counted(det, "cacheWrites", 1),
                                   DeploymentInfoOf(sig))
                /\ UNCHANGED rpcVars
    /\ UNCHANGED timeVars

(***************************************************************************)
(* Specification of the RpcService under sequential calls of its two       *)
(* selection methods.                                                      *)
(***************************************************************************)
RpcTickSteps == {1, healthCheckInterval}

InitTime ==
    /\ now = StartTime
    /\ ticks = 0

InitRpc ==
    \E env \in Envs :
        /\ rpcError = ConstructError(env)
        /\ endpoints = IF env.main THEN ConstructEndpoints(env) ELSE <<>>
        /\ currentEndpointIndex = 0
        /\ sel = IdleSel
        /\ prevSel = [op |-> "none", result |-> -1]
        /\ peer = NoPeer

RpcTick ==
    /\ Tick(RpcTickSteps)
    /\ UNCHANGED <<rpcVars, cacheVars, det>>

InitRpcSpec == InitTime /\ InitRpc /\ InitCacheEmpty /\ det = IdleDet

NextRpc ==
    \/ CallGetHealthyConnection /\ UNCHANGED <<timeVars, cacheVars, det>>
    \/ CallGetNextHealthyConnection /\ UNCHANGED <<timeVars, cacheVars, det>>
    \/ ProbeReturns /\ UNCHANGED <<timeVars, cacheVars, det>>
    \/ ResumeSelection /\ UNCHANGED <<timeVars, cacheVars, det>>
    \/ RpcTick

SpecRpc == InitRpcSpec /\ [][NextRpc]_vars

(***************************************************************************)
(* Specification of two getNextHealthyConnection calls on one RpcService   *)
(* that interleave at their awaits: the call of sel and the call of        *)
(* peer.sel share endpoints and currentEndpointIndex, each has its own     *)
(* tried, startIndex and endpoint.  The field overlapped of a frame tells  *)
(* whether the other call was in progress at any time during the call.     *)
(***************************************************************************)
\* The call of frame f is between its start and its return or throw.
Running(f) == f.pc \in {"probe", "updated"}

\* The frame of a getNextHealthyConnection call that starts now, while the
\* call of frame other may be in progress.
StartBeside(other) ==
    [StartFrame("getNextHealthyConnection", "client")
        EXCEPT !.overlapped = Running(other)]

\* Frame f once another call has started.
Joined(f) == [f EXCEPT !.overlapped = @ \/ Running(f)]

\* getNextHealthyConnection is called; the call runs to its first await.
FirstCalls ==
    /\ rpcError = ""
    /\ ~Running(sel)
    /\ prevSel' = [op |-> sel.op, result |-> sel.result]
    /\ sel' = StartBeside(peer.sel)
    /\ peer' = [peer EXCEPT !.sel = Joined(@)]
    /\ UNCHANGED <<rpcError, endpoints, currentEndpointIndex>>

\* The concurrent user calls getNextHealthyConnection.
SecondCalls ==
    /\ rpcError = ""
    /\ ~Running(peer.sel)
    /\ peer' = [peer EXCEPT !.sel = StartBeside(sel)]
    /\ sel' = Joined(sel)
    /\ UNCHANGED <<rpcError, endpoints, currentEndpointIndex, prevSel>>

\* getSlot answers the probe of the concurrent user's call.
PeerProbeReturns ==
    /\ peer.sel.pc = "probe"
    /\ \E response \in SlotResponses :
          /\ endpoints' = [endpoints EXCEPT
                             ![peer.sel.ep + 1] =
                                 ProbedEndpoint(@, response, peer.sel.now)]
          /\ peer' = [peer EXCEPT !.sel.pc = "updated",
                                  !.sel.response = <<response>>]
    /\ UNCHANGED <<rpcError, currentEndpointIndex, sel, prevSel>>

\* The concurrent user's call goes on after await updateEndpointHealth: it
\* tests the endpoint it took before the await and moves the shared cursor.
PeerResumes ==
    /\ peer.sel.pc = "updated"
    /\ LET f == [peer.sel EXCEPT !.response = <<>>]
       IN  IF endpoints[f.ep + 1].isHealthy
           THEN /\ peer' = [peer EXCEPT
                              !.sel = [f EXCEPT !.pc = "returned",
                                                !.result = f.ep]]
                /\ currentEndpointIndex' =
                       CursorOnReturn(currentEndpointIndex)
           ELSE /\ currentEndpointIndex' =
                       AdvanceCursor(currentEndpointIndex)
                /\ peer' = [peer EXCEPT
                              !.sel = Consider(
                                          [f EXCEPT !.tried = @ + 1],
                                          AdvanceCursor(
                                              currentEndpointIndex))]
    /\ UNCHANGED <<rpcError, endpoints, sel, prevSel>>

NextInterleaved ==
    \/ FirstCalls /\ UNCHANGED <<timeVars, cacheVars, det>>
    \/ ProbeReturns /\ UNCHANGED <<timeVars, cacheVars, det>>
    \/ ResumeSelection /\ UNCHANGED <<timeVars, cacheVars, det>>
    \/ SecondCalls /\ UNCHANGED <<timeVars, cacheVars, det>>
    \/ PeerProbeReturns /\ UNCHANGED <<timeVars, cacheVars, det>>
    \/ PeerResumes /\ UNCHANGED <<timeVars, cacheVars, det>>

SpecInterleaved == InitRpcSpec /\ [][NextInterleaved]_vars


(***************************************************************************)
(* Specification of the CacheService under sequential calls of its public  *)
(* methods.                                                                *)
(***************************************************************************)
CacheTickSteps == {1, cacheValidityPeriod}

\* An RpcService constructed with the primary endpoint only.
InitRpcPrimaryOnly ==
    /\ rpcError = ""
    /\ endpoints = ConstructEndpoints([main |-> TRUE, backups |-> <<>>])
    /\ currentEndpointIndex = 0
    /\ sel = IdleSel
    /\ prevSel = [op |-> "none", result |-> -1]
    /\ peer = NoPeer

CacheTick ==
    /\ Tick(CacheTickSteps)
    /\ UNCHANGED <<rpcVars, cacheVars, det>>

CallGetCachedDeployment ==
    /\ \E programId \in CacheKeys : getCachedDeployment(programId)
    /\ UNCHANGED <<timeVars, rpcVars, det>>

CallCacheDeployment ==
    /\ \E programId \in PutKeys, input \in PutInputs :
          cacheDeployment(programId, input)
    /\ UNCHANGED <<timeVars, rpcVars, det>>

CallClearCache ==
    /\ clearCache
    /\ UNCHANGED <<timeVars, rpcVars, det>>

CallGetCacheStats ==
    /\ getCacheStats
    /\ UNCHANGED <<timeVars, rpcVars, det>>

InitCacheSpec == InitTime /\ InitRpcPrimaryOnly /\ InitCache /\ det = IdleDet

NextCache ==
    \/ CallGetCachedDeployment
    \/ CallCacheDeployment
    \/ CallClearCache
    \/ CallGetCacheStats
    \/ CacheTick

SpecCache == InitCacheSpec /\ [][NextCache]_vars

(***************************************************************************)
(* Specification of two CacheService instances (two processes) over one    *)
(* cache file: the first is constructed at the start, the second at any    *)
(* time; the first caches TestProgram, the second OtherProgram.            *)
(***************************************************************************)
\* The record of a write: programId was written by the CacheService who.
Written(p, programId, who, outcome) ==
    IF outcome = "ok"
    THEN [p EXCEPT !.persisted = @ \cup {programId}, !.lastWriter = who]
    ELSE p

\* The first CacheService caches TestProgram.
FirstPuts ==
    /\ \E input \in PutInputs : cacheDeployment(TestProgram, input)
    /\ peer' = Written(peer, TestProgram, "first", lastCache'.save)
    /\ UNCHANGED <<rpcError, endpoints, currentEndpointIndex, sel, prevSel>>
    /\ UNCHANGED <<timeVars, det>>

\* new CacheService() in the second process: loadCache reads the file as it
\* is now.
PeerConstructs ==
    /\ ~peer.loaded
    /\ \E mkdirOk \in BOOLEAN :
          /\ peer' = [peer EXCEPT !.loaded = TRUE, !.cache = loadCache(disk)]
          /\ disk' = DiskAfterLoad(disk, mkdirOk)
    /\ UNCHANGED <<rpcError, endpoints, currentEndpointIndex, sel, prevSel>>
    /\ UNCHANGED <<timeVars, cache, lastCache, det>>

\* The second CacheService caches OtherProgram: cacheDeployment on its own
\* Map, saveCache on the shared file.
PeerPuts ==
    /\ peer.loaded
    /\ \E input \in PutInputs, outcome \in SaveOutcomes(disk) :
          LET mp == MapSet(peer.cache, OtherProgram,
                           NewEntry(OtherProgram, input, now))
          IN  /\ peer' = Written([peer EXCEPT !.cache = mp],
                                 OtherProgram, "second", outcome)
              /\ disk' = saveCache(mp, disk, outcome)
              /\ lastCache' = [NoCacheCall EXCEPT
                                 !.op = "cacheDeployment",
                                 !.programId = OtherProgram, !.at = now,
                                 !.before = MapGet(peer.cache, OtherProgram),
                                 !.input = <<input>>,
                                 !.save = outcome, !.prev = PrevCall]
    /\ UNCHANGED <<rpcError, endpoints, currentEndpointIndex, sel, prevSel>>
    /\ UNCHANGED <<timeVars, cache, det>>

NextShared ==
    \/ FirstPuts
    \/ PeerConstructs
    \/ PeerPuts

SpecShared == InitCacheSpec /\ [][NextShared]_vars

(***************************************************************************)
(* Specification of the ProgramService: sequential getDeploymentInfo       *)
(* calls over the RpcService and the CacheService.                         *)
(***************************************************************************)
\* The clock advances past the health check interval.
DetectTickSteps == {healthCheckInterval + 1}

\* The configurations of this specification: the primary alone, and the
\* primary with one backup.
DetectEnvs ==
    {[main |-> TRUE, backups |-> <<>>], [main |-> TRUE, backups |-> <<TRUE>>]}

\* The disks of this specification before construction: no cache
\* directory, and a document with a record of TestProgram that is 24 h old
\* (valid at the start, expired once the clock advances).
DetectDisks ==
    LET input == CHOOSE i \in PutInputs : i.deploymentTimestamp = 0
        doc(t) == StringifyCache(MapSet(EmptyMap, TestProgram,
                                        NewEntry(TestProgram, input, t)))
    IN  {[dir |-> FALSE, file |-> <<>>],
         [dir |-> TRUE, file |-> <<doc(StartTime - cacheValidityPeriod)>>]}

InitDetect ==
    /\ \E env \in DetectEnvs :
          /\ rpcError = ConstructError(env)
          /\ endpoints = ConstructEndpoints(env)
          /\ currentEndpointIndex = 0
          /\ sel = IdleSel
          /\ prevSel = [op |-> "none", result |-> -1]
          /\ peer = NoPeer
    /\ \E dsk \in DetectDisks :
          /\ cache = loadCache(dsk)
          /\ disk = DiskAfterLoad(dsk, TRUE)
          /\ lastCache = NoCacheCall
    /\ det = IdleDet

\* The signature lists the RPC returns in this specification.
DetectHistories ==
    LET programId == det.programId
    IN  {<<>>,
         <<SignatureInfo(1, 9, NoLogsTx)>>,
         <<SignatureInfo(1, 5, LogsTx(<<{}, DeployedLine>>))>>,
         <<SignatureInfo(1, 5, LogsTx(<<{}>>)),
           SignatureInfo(2, 2, LogsTx(<<{programId, "success"}>>))>>}

DetectTick ==
    /\ ticks < MaxDetectTicks
    /\ Tick(DetectTickSteps)
    /\ UNCHANGED <<rpcVars, cacheVars, det>>

DetectSignaturesReturn == SignaturesReturn(DetectHistories)

Init == InitTime /\ InitDetect

Next ==
    \/ CallGetDeploymentInfo
    \/ SelectionProbeReturns
    \/ SelectionResumes
    \/ ConnectionAcquired
    \/ AcquisitionFailed
    \/ AccountInfoReturns
    \/ SignaturesThrow
    \/ DetectSignaturesReturn
    \/ TransactionThrows
    \/ TransactionReturns
    \/ DetectTick

Spec == Init /\ [][Next]_vars

(***************************************************************************)
(* Specification of getDeploymentInfo runs in which every RPC call and     *)
(* every probe that is awaited answers or throws: the steps that resume a  *)
(* call are weakly fair, the start of a call is not.  The clock stands     *)
(* still.                                                                  *)
(***************************************************************************)
\* An awaited promise settles and the call in progress resumes.
DetectStep ==
    \/ SelectionProbeReturns
    \/ SelectionResumes
    \/ ConnectionAcquired
    \/ AcquisitionFailed
    \/ AccountInfoReturns
    \/ SignaturesThrow
    \/ DetectSignaturesReturn
    \/ TransactionThrows
    \/ TransactionReturns

NextRun ==
    \/ CallGetDeploymentInfo
    \/ DetectStep

SpecRun == Init /\ [][NextRun]_vars /\ WF_vars(DetectStep)

(***************************************************************************)
(* Specification of getDeploymentInfo calls while the clock advances first *)
(* by the health check interval and then by milliseconds, so that a health *)
(* check can come due in the middle of a call.  The cache starts empty.    *)
(***************************************************************************)
OutageTickSteps == IF ticks = 0 THEN {healthCheckInterval} ELSE {1}

InitOutage ==
    /\ InitTime
    /\ \E env \in DetectEnvs :
          /\ rpcError = ConstructError(env)
          /\ endpoints = ConstructEndpoints(env)
          /\ currentEndpointIndex = 0
          /\ sel = IdleSel
          /\ prevSel = [op |-> "none", result |-> -1]
          /\ peer = NoPeer
    /\ InitCacheEmpty
    /\ det = IdleDet

OutageTick ==
    /\ Tick(OutageTickSteps)
    /\ UNCHANGED <<rpcVars, cacheVars, det>>

NextOutage ==
    \/ DetectStep
    \/ CallGetDeploymentInfo
    \/ OutageTick

SpecOutage == InitOutage /\ [][NextOutage]_vars

(***************************************************************************)
(* Specification of the history scan: findDeploymentTransaction in the     *)
(* first attempt of a getDeploymentInfo(TestProgram) call, from the await  *)
(* of getSignaturesForAddress to the end of the attempt, over all          *)
(* signature lists up to MaxSignatures long.                               *)
(***************************************************************************)
\* The state of a service with the primary endpoint only and no cache
\* directory, after getDeploymentInfo(TestProgram) missed the cache, got
\* the primary (probed healthy) and found a program account.
InitScan ==
    /\ InitTime
    /\ rpcError = ""
    /\ endpoints = <<ProbedEndpoint(PrimaryEndpoint,
                                    [kind |-> "number", value |-> 100],
                                    StartTime)>>
    /\ currentEndpointIndex = 0
    /\ sel = [IdleSel EXCEPT
                !.op = "getNextHealthyConnection", !.pc = "returned",
                !.caller = "detect", !.now = StartTime, !.result = 0,
                !.considered = <<0>>, !.ages = <<StartTime>>,
                !.probed = <<0>>]
    /\ prevSel = [op |-> "none", result |-> -1]
    /\ peer = NoPeer
    /\ cache = EmptyMap
    /\ disk = [dir |-> TRUE, file |-> <<>>]
    /\ lastCache = [NoCacheCall EXCEPT !.op = "getCachedDeployment",
                                       !.programId = TestProgram,
                                       !.at = StartTime]
    /\ \E programData \in {<<>>, <<"test-program-data">>} :
          det = [IdleDet EXCEPT
                   !.pc = "signatures", !.programId = TestProgram,
                   !.connection = 0, !.programData = programData,
                   !.targetAccount =
                       TargetAccountOf(TestProgram, programData),
                   !.ops = [cacheReads |-> 1, cacheWrites |-> 0,
                            acquisitions |-> 1, probes |-> 1,
                            rpcCalls |-> 2]]

\* The RPC returns any list of up to MaxSignatures signatures.
ScanSignaturesReturn ==
    \E n \in 0..MaxSignatures :
        SignaturesReturn(ListsOfLength(n, det.programId))

NextScan ==
    \/ SignaturesThrow
    \/ ScanSignaturesReturn
    \/ TransactionThrows
    \/ TransactionReturns

SpecScan == InitScan /\ [][NextScan]_vars

(***************************************************************************)
(* Specification of the ProgramService with all its public methods:        *)
(* sequential calls of getDeploymentInfo, clearCache and getCacheStats at  *)
(* one instant, over a cache file whose record has expired.                *)
(***************************************************************************)
\* The disk before construction: a document with a record of TestProgram
\* that is one millisecond older than 24 h.
ServiceDisk ==
    LET input == CHOOSE i \in PutInputs : i.deploymentTimestamp = 0
    IN  [dir |-> TRUE,
         file |-> <<StringifyCache(
                      MapSet(EmptyMap, TestProgram,
                             NewEntry(TestProgram, input,
                                      StartTime - cacheValidityPeriod - 1)))>>]

InitService ==
    /\ InitTime
    /\ InitRpcPrimaryOnly
    /\ cache = loadCache(ServiceDisk)
    /\ disk = DiskAfterLoad(ServiceDisk, TRUE)
    /\ lastCache = NoCacheCall
    /\ det = IdleDet

\* ProgramService.clearCache().
ProgramClearCache ==
    /\ DetQuiet
    /\ rpcError = ""
    /\ clearCache
    /\ UNCHANGED <<timeVars, rpcVars, det>>

\* ProgramService.getCacheStats().
ProgramGetCacheStats ==
    /\ DetQuiet
    /\ rpcError = ""
    /\ getCacheStats
    /\ UNCHANGED <<timeVars, rpcVars, det>>

NextService ==
    \/ CallGetDeploymentInfo
    \/ SelectionProbeReturns
    \/ SelectionResumes
    \/ ConnectionAcquired
    \/ AcquisitionFailed
    \/ AccountInfoReturns
    \/ SignaturesThrow
    \/ DetectSignaturesReturn
    \/ TransactionThrows
    \/ TransactionReturns
    \/ ProgramClearCache
    \/ ProgramGetCacheStats

SpecService == InitService /\ [][NextService]_vars

(***************************************************************************)
(* Properties of the RpcService (checked under SpecRpc).                   *)
(***************************************************************************)
GetNextReturned ==
    sel.op = "getNextHealthyConnection" /\ sel.pc = "returned"

GetHealthyReturned ==
    sel.op = "getHealthyConnection" /\ sel.pc = "returned"

AllFlaggedHealthy == \A k \in DOMAIN endpoints : endpoints[k].isHealthy

\* Two consecutive getNextHealthyConnection calls both returned, with
\* exactly the primary and one backup configured and both healthy.
TwoNextCallsBothHealthy ==
    /\ NumEndpoints = 2
    /\ prevSel.op = "getNextHealthyConnection"
    /\ prevSel.result >= 0
    /\ GetNextReturned
    /\ AllFlaggedHealthy

C8_ExactlyOneProbeEach ==
    sel.pc = "threw" =>
        /\ sel.error = NoHealthyMsg
        /\ \A idx \in 0..(NumEndpoints - 1) : Count(sel.probed, idx) = 1

\* C8 amended: a selection call (of either policy) fails only with the
\* no-healthy-endpoint error and only after it has considered every endpoint
\* once and found each unhealthy; it probes an endpoint at most once, and
\* exactly the endpoints whose last health check was more than 5 minutes
\* old when considered (a fresher unhealthy value is used without a probe).
C8_FailsAfterAtMostOneProbeEach ==
    sel.pc = "threw" =>
        /\ sel.error = NoHealthyMsg
        /\ Len(sel.considered) = NumEndpoints
        /\ \A idx \in 0..(NumEndpoints - 1) :
              /\ Count(sel.considered, idx) = 1
              /\ Count(sel.probed, idx) <= 1
              /\ ~endpoints[idx + 1].isHealthy
        /\ \A k \in DOMAIN sel.considered :
              Count(sel.probed, sel.considered[k]) = 1
                  <=> sel.ages[k] > healthCheckInterval

\* Witness of C8: a getHealthyConnection call failed over three endpoints
\* having probed only some of them.
C8_Witness ==
    /\ sel.pc = "threw"
    /\ sel.op = "getHealthyConnection"
    /\ NumEndpoints >= 2
    /\ Len(sel.probed) = 1

\* C9: getNextHealthyConnection considers the endpoints from the cursor on,
\* in list order with wrap-around, at most N of them; it returns the first
\* one found healthy and then the cursor indexes the endpoint returned.
C9_NextHealthyFromCursor ==
    sel.op = "getNextHealthyConnection" =>
        /\ Len(sel.considered) <= NumEndpoints
        /\ \A k \in DOMAIN sel.considered :
              sel.considered[k] = (sel.startIndex + k - 1) % NumEndpoints
        /\ sel.pc \in {"probe", "updated"} => currentEndpointIndex = sel.ep
        /\ sel.pc = "returned" =>
              /\ sel.result = sel.considered[Len(sel.considered)]
              /\ endpoints[sel.result + 1].isHealthy
              /\ \A k \in 1..(Len(sel.considered) - 1) :
                    ~endpoints[sel.considered[k] + 1].isHealthy
              /\ currentEndpointIndex = sel.result

\* Witness of C9: a call that started at the backup wrapped around to the
\* primary and returned it.
C9_Witness ==
    /\ GetNextReturned
    /\ sel.startIndex = 1
    /\ sel.result = 0
    /\ Len(sel.considered) = 2

\* C10: getHealthyConnection returns the healthy endpoint with the lowest
\* priority number (it has considered every endpoint of a lower priority
\* number, in order from the first, and found it unhealthy) and probes no
\* endpoint of a higher priority number than the one it returns, wherever
\* the cursor is.
C10_LowestPriorityHealthy ==
    GetHealthyReturned =>
        LET returned == endpoints[sel.result + 1]
        IN  /\ returned.isHealthy
            /\ sel.considered = [k \in 1..(sel.result + 1) |-> k - 1]
            /\ \A k \in DOMAIN endpoints :
                  endpoints[k].isHealthy =>
                      returned.priority <= endpoints[k].priority
            /\ \A k \in DOMAIN sel.probed :
                  endpoints[sel.probed[k] + 1].priority <= returned.priority

\* Witness of C10: the cursor is on the backup that the call before
\* returned, and getHealthyConnection returns the primary after probing it.
C10_Witness ==
    /\ GetHealthyReturned
    /\ currentEndpointIndex = 1
    /\ prevSel.op = "getNextHealthyConnection"
    /\ prevSel.result = 1
    /\ sel.result = 0
    /\ sel.probed = <<0>>

(***************************************************************************)
(* Properties of the CacheService (checked under SpecCache).               *)
(***************************************************************************)
TwentyFourHours == 24 * 60 * 60 * 1000

\* The last CacheService call was a getCachedDeployment that found a record
\* with a numeric lastChecked.
GetFoundRecord ==
    /\ lastCache.op = "getCachedDeployment"
    /\ lastCache.before # <<>>
    /\ lastCache.before[1].lastChecked # <<>>

\* now - lastChecked of the record the last getCachedDeployment found.
FoundAge == lastCache.at - lastCache.before[1].lastChecked[1]

\* C3: get (getCachedDeployment) never returns a record with
\* now - lastChecked > 24 h; the get that finds such a record removes it
\* from the in-memory map and rewrites the backing document from the map
\* (saveCache; the document equals the map when the write succeeds), and a
\* record with now - lastChecked <= 24 h is returned and left in place.
C3_GetEvictsExpired ==
    /\ (lastCache.op = "getCachedDeployment" /\ lastCache.ret # <<>>
            /\ lastCache.ret[1].lastChecked # <<>>) =>
          lastCache.at - lastCache.ret[1].lastChecked[1] <= TwentyFourHours
    /\ (GetFoundRecord /\ FoundAge > TwentyFourHours) =>
          /\ lastCache.ret = <<>>
          /\ lastCache.programId \notin DOMAIN cache
          /\ lastCache.save # "none"
          /\ lastCache.save = "ok" =>
                disk = [dir |-> TRUE, file |-> <<StringifyCache(cache)>>]
    /\ (GetFoundRecord /\ FoundAge <= TwentyFourHours) =>
          /\ lastCache.ret = lastCache.before
          /\ MapGet(cache, lastCache.programId) = lastCache.before
          /\ lastCache.save = "none"

\* Witness of C3: a get evicted a record one millisecond past 24 h, kept the
\* record of the other program, and the write succeeded.
C3_Witness ==
    /\ GetFoundRecord
    /\ FoundAge = TwentyFourHours + 1
    /\ lastCache.ret = <<>>
    /\ lastCache.save = "ok"
    /\ DOMAIN cache # {}

(***************************************************************************)
(* Properties of getDeploymentInfo (checked under Spec).                   *)
(***************************************************************************)
\* A step that is, or follows, the return of a getDeploymentInfo call for
\* a native program id.
NativeCallStep ==
    /\ DetQuiet
    /\ det'.pc # "idle"
    /\ det'.programId \in NATIVE_PROGRAMS

\* C1: for every programId in the native-program set, getDeploymentInfo
\* returns the native sentinel (null) at once and performs no cache read or
\* write, no endpoint acquisition, no health probe and no RPC call: the
\* call counts none of these operations and leaves the cache, the backing
\* document and the endpoint state as they were.
C1_NativeNoOperations ==
    [][NativeCallStep =>
          /\ det'.pc = "done"
          /\ det'.result = [kind |-> "native", info |-> <<>>, error |-> ""]
          /\ det'.ops = NoOps
          /\ UNCHANGED <<rpcVars, cacheVars>>]_vars

\* Witness of C1: a native program id was answered after an earlier call
\* had written the cache and probed an endpoint.
C1_Witness ==
    /\ det.pc = "done"
    /\ det.result.kind = "native"
    /\ det.programId \in NATIVE_PROGRAMS
    /\ lastCache.op = "cacheDeployment"
    /\ sel.probed # <<>>
    /\ DOMAIN cache # {}

\* The cache holds a record of programId that is not older than 24 h.
CachedNotExpired(programId) ==
    /\ programId \in DOMAIN cache
    /\ cache[programId].lastChecked # <<>>
    /\ now - cache[programId].lastChecked[1] <= TwentyFourHours

\* A step in which getDeploymentInfo is called for a non-native program id
\* that has a cached, non-expired record.
CacheHitCallStep ==
    /\ DetQuiet
    /\ ~UNCHANGED <<det, lastCache>>
    /\ det'.programId \notin NATIVE_PROGRAMS
    /\ CachedNotExpired(det'.programId)

\* C2: for every non-native programId with a cached, non-expired record,
\* getDeploymentInfo returns that record's signature, slot, timestamp and
\* programDataAccount and performs no endpoint acquisition, no probe and no
\* RPC call; the record stays in the cache.
C2_CacheHitNoNetwork ==
    [][CacheHitCallStep =>
          /\ det'.pc = "done"
          /\ det'.result.kind = "info"
          /\ LET info == det'.result.info[1]
                 record == cache[det'.programId]
             IN  /\ info.signature = record.deploymentSignature
                 /\ info.slot = record.deploymentSlot
                 /\ info.timestamp = record.deploymentTimestamp
                 /\ info.programDataAccount = record.programDataAccount
          /\ det'.ops.acquisitions = 0
          /\ det'.ops.probes = 0
          /\ det'.ops.rpcCalls = 0
          /\ UNCHANGED <<rpcVars, cache, disk>>]_vars

\* Witness of C2: a call was answered from a record exactly 24 h old.
C2_Witness ==
    /\ det.pc = "done"
    /\ det.result.kind = "info"
    /\ det.ops.cacheReads = 1
    /\ det.ops.acquisitions = 0
    /\ lastCache.op = "getCachedDeployment"
    /\ lastCache.ret # <<>>
    /\ lastCache.at - lastCache.ret[1].lastChecked[1] = TwentyFourHours
    /\ det.result.info[1].signature = lastCache.ret[1].deploymentSignature

\* An attempt of the current getDeploymentInfo call is in progress.
AttemptInProgress ==
    det.pc \in {"acquire", "accountInfo", "signatures", "transaction"}

\* C4: on a cache miss getDeploymentInfo makes at most 3 attempts; every
\* attempt starts with one getNextHealthyConnection call (the round-robin
\* policy) and uses the connection it returned; a failed attempt is
\* followed by another one exactly while fewer than 3 have failed, so the
\* call throws only after 3 failed attempts; and a successful attempt ends
\* the call: it is the only attempt after the failed ones.
C4_AtMostThreeAttempts ==
    /\ det.attempts <= 3
    /\ det.ops.acquisitions <= 3
    /\ AttemptInProgress =>
          /\ det.attempts < 3
          /\ det.ops.acquisitions = det.attempts + 1
          /\ det.result = NoResult
          /\ sel.op = "getNextHealthyConnection"
          /\ sel.caller = "detect"
          /\ det.pc # "acquire" =>
                (sel.pc = "returned" /\ det.connection = sel.result)
    /\ (det.pc = "done" /\ det.result.kind = "error") =>
          /\ det.attempts = 3
          /\ det.ops.acquisitions = 3
          /\ det.result.error = det.lastError
    /\ (det.pc = "done" /\ det.result.kind = "info"
            /\ det.ops.acquisitions > 0) =>
          /\ det.attempts < 3
          /\ det.ops.acquisitions = det.attempts + 1
    /\ (det.pc = "done" /\ det.ops.acquisitions = 0) =>
          det.attempts = 0

\* Witness of C4: the third attempt succeeded after two failed ones.
C4_Witness ==
    /\ det.pc = "done"
    /\ det.result.kind = "info"
    /\ det.attempts = 2
    /\ det.ops.acquisitions = 3

(***************************************************************************)
(* Properties of findDeploymentTransaction (checked under SpecScan).       *)
(***************************************************************************)
\* Do the logs of the transaction of sig hold a deployment marker: a line
\* with 'Deployed program' or 'Deploy with ID', or a line with both the
\* program id and 'success'?
MatchesDeploymentMarker(sig, programId) ==
    /\ sig.tx.present
    /\ sig.tx.logMessages # <<>>
    /\ \E k \in DOMAIN sig.tx.logMessages[1] :
          LET line == sig.tx.logMessages[1][k]
          IN  \/ "Deployed program" \in line
              \/ "Deploy with ID" \in line
              \/ {programId, "success"} \subseteq line

\* The elements of the signature list of the scan.
ScannedSignatures == {det.signatures[k] : k \in DOMAIN det.signatures}

\* getDeploymentInfo returned the result of a scan.
ScanReturned ==
    /\ det.pc = "done"
    /\ det.result.kind = "info"
    /\ det.fetched # <<>>

\* C5: for every signature list of the target account, getDeploymentInfo
\* returns the signature, the slot and the block time (0 when the signature
\* has none) of a transaction of the list whose logs match a deployment
\* marker, and no matching transaction of the list has a lower slot.
C5_LowestSlotMatch ==
    ScanReturned =>
        \E sig \in ScannedSignatures :
            /\ MatchesDeploymentMarker(sig, det.programId)
            /\ det.result.info[1].signature = sig.signature
            /\ det.result.info[1].slot = sig.slot
            /\ det.result.info[1].timestamp =
                  (IF sig.blockTime = <<>> THEN 0 ELSE sig.blockTime[1])
            /\ \A other \in ScannedSignatures :
                  MatchesDeploymentMarker(other, det.programId) =>
                      sig.slot <= other.slot

\* Witness of C5: the RPC returned a match in slot 9, then an unrelated
\* transaction in slot 2, then a match in slot 5, and the one in slot 5 was
\* returned.
C5_Witness ==
    /\ ScanReturned
    /\ Len(det.signatures) = 3
    /\ \E first, second, third \in ScannedSignatures :
          /\ first.signature = 1 /\ first.slot = 9
          /\ MatchesDeploymentMarker(first, det.programId)
          /\ second.signature = 2 /\ second.slot = 2
          /\ second.tx = LogsTx(<<{}>>)
          /\ third.signature = 3 /\ third.slot = 5
          /\ third.tx = LogsTx(<<{}, DeployedLine>>)
    /\ det.result.info[1].signature = 3
    /\ det.result.info[1].slot = 5
    /\ det.result.info[1].timestamp = 1600000005

\* The element of the signature list with this signature.
ScannedSignature(signature) ==
    CHOOSE sig \in ScannedSignatures : sig.signature = signature

\* C6: whatever order the RPC returns the signatures in, the scan fetches
\* transactions in ascending slot order, one at a time, and stops at the
\* first match: the fetched signatures are distinct elements of the list
\* in nondecreasing slot order, no unfetched one has a lower slot than a
\* fetched one, one getParsedTransaction call is made per fetched
\* signature, only the last fetch can be unanswered, and every fetched
\* transaction before the last did not match.
C6_AscendingOneAtATime ==
    LET n == Len(det.fetched)
        slotOf(k) == ScannedSignature(det.fetched[k]).slot
        unfetched ==
            {sig \in ScannedSignatures :
                \A k \in 1..n : det.fetched[k] # sig.signature}
    IN  /\ \A k \in 1..n :
              \E sig \in ScannedSignatures : sig.signature = det.fetched[k]
        /\ \A j, k \in 1..n :
              j < k => /\ det.fetched[j] # det.fetched[k]
                       /\ slotOf(j) <= slotOf(k)
        /\ \A k \in 1..n : \A sig \in unfetched : slotOf(k) <= sig.slot
        /\ det.ops.rpcCalls = 2 + n
        /\ det.pc = "transaction" => det.scanIdx = n
        /\ \A k \in 1..(n - 1) :
              ~MatchesDeploymentMarker(ScannedSignature(det.fetched[k]),
                                       det.programId)
        /\ ScanReturned =>
              MatchesDeploymentMarker(ScannedSignature(det.fetched[n]),
                                      det.programId)

\* Witness of C6: the RPC returned the slots 5, 2, 9, and the scan fetched
\* the transactions of the slots 2, 5, 9 in this order, the last one being
\* the first match.
C6_Witness ==
    /\ ScanReturned
    /\ det.fetched = <<2, 1, 3>>
    /\ ScannedSignature(1).slot = 5
    /\ ScannedSignature(2).slot = 2
    /\ ScannedSignature(3).slot = 9

(***************************************************************************)
(* Further properties of the RpcService (checked under SpecRpc).           *)
(***************************************************************************)
FiveMinutes == 5 * 60 * 1000

\* A step in which the running selection call starts a probe.
ProbeStarts == sel'.pc = "probe" /\ sel' # sel

\* A step in which the running selection call takes an endpoint without
\* probing it.
TakenWithoutProbe == sel'.pc = "updated" /\ sel.pc # "probe" /\ sel' # sel

\* C11: over any sequence of sequential selection calls each endpoint is
\* probed at most once per 5-minute interval.  A probe starts only for the
\* endpoint under consideration and only when more than 5 minutes have
\* passed since the time recorded for its previous probe (0 when it was
\* never probed); the probe's answer changes only that endpoint and
\* records the time the probe started; an endpoint considered within the
\* 5 minutes is not probed and the call goes by its last known health.
C11_ProbeAtMostOncePerInterval ==
    [][/\ ProbeStarts =>
             /\ sel'.considered # <<>>
             /\ sel'.considered[Len(sel'.considered)] = sel'.ep
             /\ sel'.now = now
             /\ now - endpoints[sel'.ep + 1].lastHealthCheck > FiveMinutes
             /\ endpoints' = endpoints
       /\ endpoints' # endpoints =>
             /\ sel.pc = "probe"
             /\ endpoints'[sel.ep + 1].lastHealthCheck = sel.now
             /\ \A k \in DOMAIN endpoints :
                   k # sel.ep + 1 => endpoints'[k] = endpoints[k]
       /\ TakenWithoutProbe =>
             /\ now - endpoints[sel'.ep + 1].lastHealthCheck <= FiveMinutes
             /\ endpoints' = endpoints
             /\ sel'.probed = (IF SelQuiet THEN <<>> ELSE sel.probed)
       /\ (sel.pc = "updated" /\ sel'.pc = "returned") =>
             /\ endpoints[sel.ep + 1].isHealthy
             /\ sel'.result = sel.ep
             /\ endpoints' = endpoints]_vars

\* Witness of C11: a call returned an endpoint whose previous probe was
\* exactly 5 minutes old, without probing it.
C11_Witness ==
    /\ sel.pc = "returned"
    /\ sel.considered = <<sel.result>>
    /\ sel.ages = <<FiveMinutes>>
    /\ sel.probed = <<>>
    /\ endpoints[sel.result + 1].lastHealthCheck = now - FiveMinutes

(***************************************************************************)
(* Further properties of the CacheService (checked under SpecCache).       *)
(***************************************************************************)
\* C12: from any state of the CacheService, clearCache followed by
\* getCacheStats yields total 0, valid 0 and expired 0, also when removing
\* the backing file or the directory fails: after clearCache the map is
\* empty whatever happened to the files.
C12_ClearThenStatsZero ==
    /\ lastCache.op = "clearCache" => DOMAIN cache = {}
    /\ (lastCache.op = "getCacheStats" /\ lastCache.prev = "clearCache") =>
          lastCache.stats = [total |-> 0, valid |-> 0, expired |-> 0]

\* Witness of C12: getCacheStats followed a clearCache that could neither
\* rewrite nor remove the backing file, which still holds records.
C12_Witness ==
    /\ lastCache.op = "getCacheStats"
    /\ lastCache.prev = "clearCache"
    /\ lastCache.stats.total = 0
    /\ disk.file # <<>>
    /\ disk.file[1].kind = "json"
    /\ DOMAIN disk.file[1].entries # {}

\* No call was made since construction, or only a getCacheStats.
JustConstructed ==
    \/ lastCache.op = "none"
    \/ lastCache.op = "getCacheStats" /\ lastCache.prev = "none"

\* The backing file is missing or holds content JSON.parse rejects.
NoUsableFile == disk.file = <<>> \/ disk.file[1].kind # "json"

\* C13: constructing the CacheService never raises: loadCache yields a map
\* for every disk, and with a missing backing file or with unparsable
\* content (such as "not json") the store starts empty and getCacheStats
\* reports total 0.
C13_ConstructionNeverRaises ==
    /\ \A dsk \in InitialDisks :
          (dsk.file = <<>> \/ dsk.file[1].kind # "json") =>
              DOMAIN loadCache(dsk) = {}
    /\ (JustConstructed /\ NoUsableFile) => DOMAIN cache = {}
    /\ (lastCache.op = "getCacheStats" /\ lastCache.prev = "none"
            /\ NoUsableFile) =>
          lastCache.stats.total = 0

\* Witness of C13: the CacheService was constructed over a file with
\* unparsable content, and getCacheStats, the first call, reported total 0.
C13_Witness ==
    /\ lastCache.op = "getCacheStats"
    /\ lastCache.prev = "none"
    /\ disk.file # <<>>
    /\ disk.file[1].kind = "garbage"
    /\ lastCache.stats.total = 0

\* A step in which getCachedDeployment is called for the programId that
\* the call before it, a cacheDeployment, stored not more than 24 h ago.
GetAfterPutStep ==
    /\ lastCache.op = "cacheDeployment"
    /\ lastCache'.op = "getCachedDeployment"
    /\ lastCache'.programId = lastCache.programId
    /\ now - lastCache.at <= TwentyFourHours

\* C14: cacheDeployment followed by getCachedDeployment of the same
\* programId within 24 h returns a record with the signature, slot and
\* timestamp given, with programDataAccount equal to the one given, and
\* undefined (not an empty string) when none was given.
C14_PutThenGet ==
    [][GetAfterPutStep =>
          /\ lastCache'.ret # <<>>
          /\ LET record == lastCache'.ret[1]
                 given == lastCache.input[1]
             IN  /\ record.programId = lastCache.programId
                 /\ record.deploymentSignature = given.deploymentSignature
                 /\ record.deploymentSlot = given.deploymentSlot
                 /\ record.deploymentTimestamp = given.deploymentTimestamp
                 /\ record.programDataAccount = given.programDataAccount
                 /\ given.programDataAccount = <<>> =>
                       record.programDataAccount # <<"">>]_vars

\* Witness of C14: a record stored without programDataAccount was read
\* back exactly 24 h later, with programDataAccount undefined.
C14_Witness ==
    /\ lastCache.op = "getCachedDeployment"
    /\ lastCache.prev = "cacheDeployment"
    /\ lastCache.ret # <<>>
    /\ lastCache.ret[1].programDataAccount = <<>>
    /\ lastCache.ret[1].lastChecked = <<lastCache.at - TwentyFourHours>>
    /\ lastCache.ret[1].lastChecked[1] > StartTime

(***************************************************************************)
(* Properties of the ProgramService over the CacheService (checked under   *)
(* SpecService).                                                           *)
(***************************************************************************)
\* The last CacheService call could not write the backing document.
PersistFailed == lastCache.save \in {"writeFails", "mkdirFails"}

\* C15: a persistence failure in the CacheService never interrupts the
\* caller.  When the write of the backing document fails, cacheDeployment
\* has stored the record in the map, clearCache has emptied the map and
\* the evicting getCachedDeployment has removed the record and returned
\* null; the getDeploymentInfo call whose evicting read failed to persist
\* goes on to the network, and the one whose cache write failed returns
\* the result it detected.
C15_PersistFailureAbsorbed ==
    PersistFailed =>
        /\ lastCache.op = "cacheDeployment" =>
              /\ lastCache.programId \in DOMAIN cache
              /\ LET record == cache[lastCache.programId]
                     given == lastCache.input[1]
                 IN  /\ record.deploymentSignature = given.deploymentSignature
                     /\ record.deploymentSlot = given.deploymentSlot
                     /\ record.deploymentTimestamp = given.deploymentTimestamp
                     /\ record.lastChecked = <<lastCache.at>>
                     /\ det.programId = lastCache.programId =>
                           /\ det.pc = "done"
                           /\ det.result.kind = "info"
                           /\ det.result.info[1].signature =
                                 given.deploymentSignature
                           /\ det.result.info[1].slot = given.deploymentSlot
                           /\ det.result.info[1].timestamp =
                                 given.deploymentTimestamp
        /\ lastCache.op = "clearCache" =>
              /\ DOMAIN cache = {}
              /\ DetQuiet
        /\ lastCache.op = "getCachedDeployment" =>
              /\ lastCache.before # <<>>
              /\ lastCache.ret = <<>>
              /\ lastCache.programId \notin DOMAIN cache
              /\ det.programId = lastCache.programId =>
                    det.ops.acquisitions >= 1

\* Witness of C15: getDeploymentInfo returned the deployment it found
\* although the write of the cache document failed; the document still
\* lacks the record.
C15_Witness ==
    /\ det.pc = "done"
    /\ det.result.kind = "info"
    /\ det.programId = lastCache.programId
    /\ lastCache.op = "cacheDeployment"
    /\ lastCache.save = "writeFails"
    /\ disk.file # <<>>
    /\ lastCache.programId \notin DOMAIN disk.file[1].entries

(***************************************************************************)
(* Properties of getCacheStats (checked under SpecCache).                  *)
(***************************************************************************)
\* A step that is a getCacheStats call.
StatsStep == lastCache'.op = "getCacheStats" /\ lastCache' # lastCache

\* The programIds whose record has now - lastChecked <= 24 h.
WithinTwentyFourHours ==
    {k \in DOMAIN cache :
        /\ cache[k].lastChecked # <<>>
        /\ now - cache[k].lastChecked[1] <= TwentyFourHours}

\* C16: getCacheStats is a read-only snapshot: it changes neither the map
\* nor the persisted document and evicts nothing, and it returns total =
\* the number of records, valid = the number of records with
\* now - lastChecked <= 24 h, and expired = total - valid.
C16_StatsReadOnly ==
    [][StatsStep =>
          /\ cache' = cache
          /\ disk' = disk
          /\ lastCache'.stats.total = Cardinality(DOMAIN cache)
          /\ lastCache'.stats.valid = Cardinality(WithinTwentyFourHours)
          /\ lastCache'.stats.expired =
                lastCache'.stats.total - lastCache'.stats.valid
          /\ lastCache'.save = "none"]_vars

\* Witness of C16: getCacheStats counted one valid and one expired record,
\* and both are still in the map.
C16_Witness ==
    /\ lastCache.op = "getCacheStats"
    /\ lastCache.stats = [total |-> 2, valid |-> 1, expired |-> 1]
    /\ Cardinality(DOMAIN cache) = 2
    /\ \E k \in DOMAIN cache :
          /\ cache[k].lastChecked # <<>>
          /\ lastCache.at - cache[k].lastChecked[1] > TwentyFourHours

(***************************************************************************)
(* Properties of the attempts of getDeploymentInfo (checked under          *)
(* SpecService).                                                           *)
(***************************************************************************)
\* A step in which getParsedAccountInfo answers with an account whose
\* owner is not one of the loader programs.
ForeignOwnerStep ==
    /\ det.pc = "accountInfo"
    /\ det'.answers.foreignOwner = det.answers.foreignOwner + 1

\* The step ends the attempt with this error: the attempt is counted, no
\* RPC call is made, no signature list or transaction is fetched and the
\* cache is left alone, and the call goes to its
\* next attempt while fewer than 3 have failed and throws the error
\* otherwise.
AttemptEndsWith(error) ==
    /\ det'.lastError = error
    /\ det'.attempts = det.attempts + 1
    /\ det'.ops.rpcCalls = det.ops.rpcCalls
    /\ det'.signatures = det.signatures
    /\ det'.fetched = det.fetched
    /\ UNCHANGED cacheVars
    /\ IF det'.attempts < 3
       THEN /\ det'.pc = "acquire"
            /\ det'.result = NoResult
            /\ det'.ops.acquisitions = det.ops.acquisitions + 1
       ELSE /\ det'.pc = "done"
            /\ det'.result = [kind |-> "error", info |-> <<>>, error |-> error]

\* The getDeploymentInfo call of the state made no cacheDeployment.
NothingCached ==
    /\ lastCache.op # "cacheDeployment"
    /\ det.programId \notin DOMAIN cache

\* C17: when the account exists but its owner is not one of the loader
\* programs, the attempt fails with the 'Not a program account' error
\* without fetching the signature history or caching anything, and it is
\* counted and retried like any failure: a call whose 3 attempts all see
\* such an account has fetched the account info 3 times and nothing else
\* when it throws the error.
C17_NotAProgramAccount ==
    [][/\ ForeignOwnerStep => AttemptEndsWith(NotAProgramMsg)
       /\ (det'.pc = "done" /\ det'.answers.foreignOwner = 3) =>
             /\ det'.result.kind = "error"
             /\ det'.result.error = NotAProgramMsg
             /\ det'.attempts = 3
             /\ det'.ops.rpcCalls = 3
             /\ det'.ops.acquisitions = 3
             /\ det'.signatures = <<>>
             /\ det'.fetched = <<>>
             /\ NothingCached']_vars

\* Witness of C17: three attempts saw an account owned by no loader, and
\* the call threw 'Not a program account' after 3 account fetches.
C17_Witness ==
    /\ det.pc = "done"
    /\ det.answers.foreignOwner = 3
    /\ det.result.error = NotAProgramMsg
    /\ det.ops.rpcCalls = 3

\* A step in which getParsedAccountInfo answers with value null.
AbsentAccountStep ==
    /\ det.pc = "accountInfo"
    /\ det'.answers.absent = det.answers.absent + 1

\* C18: when the account info is absent the attempt fails with 'Account
\* not found' before the owner is looked at and before any signature
\* fetch; the failure is counted against the 3 attempts, and a call whose
\* 3 attempts all see an absent account throws 'Account not found'.
C18_AccountNotFound ==
    [][/\ AbsentAccountStep =>
             /\ AttemptEndsWith(AccountNotFoundMsg)
             /\ det'.answers.foreignOwner = det.answers.foreignOwner
       /\ (det'.pc = "done" /\ det'.answers.absent = 3) =>
             /\ det'.result.kind = "error"
             /\ det'.result.error = AccountNotFoundMsg
             /\ det'.attempts = 3
             /\ det'.ops.rpcCalls = 3
             /\ det'.fetched = <<>>
             /\ NothingCached']_vars

\* Witness of C18: three attempts saw an absent account, and the call
\* threw 'Account not found'.
C18_Witness ==
    /\ det.pc = "done"
    /\ det.answers.absent = 3
    /\ det.result.error = AccountNotFoundMsg
    /\ det.attempts = 3

\* A step in which getSignaturesForAddress answers with an empty list.
EmptyHistoryStep ==
    /\ det.pc = "signatures"
    /\ det'.answers.history = "empty"

\* A step in which the walk over a non-empty signature list ends without a
\* deployment.
NoMatchStep ==
    /\ det.pc = "transaction"
    /\ det'.answers.history = "noMatch"

\* C19: an attempt whose target account has an empty signature list fails
\* with an error of its own, different from the 'Could not find deployment
\* transaction' that a walk without a match fails with.
C19_EmptyHistoryOwnError ==
    [][/\ NoMatchStep => det'.lastError = CouldNotFindMsg
       /\ EmptyHistoryStep => det'.lastError # CouldNotFindMsg]_vars

(***************************************************************************)
(* Properties of the successful attempt of getDeploymentInfo (checked      *)
(* under Spec, where time passes between the steps of a call).             *)
(***************************************************************************)
\* A step in which an attempt succeeds: the scan found the deployment and
\* getDeploymentInfo returns it.
AttemptSucceedsStep ==
    /\ det.pc = "transaction"
    /\ det'.pc = "done"
    /\ det'.result.kind = "info"

\* The program of the attempt is upgradeable: its account names a
\* programData account.
Upgradeable == det.programData # <<>>

\* C20: when an attempt succeeds the cache is written before
\* getDeploymentInfo returns: with the return the map holds for programId
\* an entry with the returned signature, slot and timestamp, lastChecked
\* at the time of the write, and programDataAccount set (to the programData
\* address) exactly when the program is upgradeable.
C20_CachedBeforeReturn ==
    [][AttemptSucceedsStep =>
          /\ lastCache'.op = "cacheDeployment"
          /\ lastCache'.programId = det.programId
          /\ lastCache'.at = now
          /\ det'.ops.cacheWrites = det.ops.cacheWrites + 1
          /\ det.programId \in DOMAIN cache'
          /\ LET entry == cache'[det.programId]
                 info == det'.result.info[1]
             IN  /\ entry.programId = det.programId
                 /\ entry.deploymentSignature = info.signature
                 /\ entry.deploymentSlot = info.slot
                 /\ entry.deploymentTimestamp = info.timestamp
                 /\ entry.lastChecked = <<now>>
                 /\ (entry.programDataAccount # <<>>) <=> Upgradeable
                 /\ entry.programDataAccount = det.programData
                 /\ entry.isProgramData <=> Upgradeable]_vars

\* Witness of C20: after the clock has moved a call returned the
\* deployment of an upgradeable program, and the entry in the map carries
\* the time of the write, the returned signature and the programData
\* address.
C20_Witness ==
    /\ det.pc = "done"
    /\ det.result.kind = "info"
    /\ lastCache.op = "cacheDeployment"
    /\ Upgradeable
    /\ det.programId \in DOMAIN cache
    /\ cache[det.programId].programDataAccount = det.programData
    /\ cache[det.programId].lastChecked = <<now>>
    /\ cache[det.programId].deploymentSignature = det.result.info[1].signature
    /\ now > StartTime

(***************************************************************************)
(* Properties of the error getDeploymentInfo throws (checked under         *)
(* SpecService).                                                           *)
(***************************************************************************)
\* A step in which getSignaturesForAddress or getParsedTransaction throws:
\* the attempt ends at the fetch without an empty list and without a walk
\* that reached its end.
RpcThrowsInScanStep ==
    /\ det.pc \in {"signatures", "transaction"}
    /\ det'.attempts = det.attempts + 1
    /\ det'.answers.history = ""

\* The step in which getDeploymentInfo throws after its last attempt.
ExhaustedStep ==
    /\ AttemptInProgress
    /\ det'.pc = "done"
    /\ det'.result.kind = "error"

\* C21: after the attempts are exhausted getDeploymentInfo throws the error
\* raised in the final attempt, unchanged, also when that error was thrown
\* by the RPC call that fetches the signature list or a transaction.
C21_FinalErrorVerbatim ==
    [][ExhaustedStep =>
          /\ det'.attempts = 3
          /\ det'.result.error = det'.lastError
          /\ RpcThrowsInScanStep => det'.result.error = RpcFailureMsg]_vars

(***************************************************************************)
(* Properties of the construction of the RpcService (checked under         *)
(* SpecRpc).                                                               *)
(***************************************************************************)
\* No selection call was ever started and no endpoint was ever probed.
NeverSelected ==
    /\ sel = IdleSel
    /\ prevSel.op = "none"
    /\ currentEndpointIndex = 0

\* The urls of the endpoint list (0 the primary, k the k-th entry of
\* BACKUP_RPC_URLS) and its priorities, in list order.
EndpointUrls == [k \in DOMAIN endpoints |-> endpoints[k].url]
EndpointPriorities == [k \in DOMAIN endpoints |-> endpoints[k].priority]

\* C22: without MAIN_RPC_URL the constructor throws its configuration
\* error and there is no service: no endpoint, no selection, no probe.
\* With it the constructor succeeds with the primary first at priority 1
\* and the backups (none, or up to the number declared) after it in
\* declared order with strictly increasing priority.
C22_ConstructionOfEndpoints ==
    /\ rpcError \in {"", NoPrimaryMsg}
    /\ rpcError = NoPrimaryMsg => endpoints = <<>> /\ NeverSelected
    /\ rpcError = "" =>
          /\ Len(endpoints) \in 1..(1 + MaxBackups)
          /\ endpoints[1].url = 0
          /\ endpoints[1].priority = 1
          /\ \A j \in 2..Len(endpoints) :
                /\ EndpointUrls[j - 1] < EndpointUrls[j]
                /\ EndpointPriorities[j - 1] < EndpointPriorities[j]
                /\ EndpointPriorities[j] = EndpointUrls[j] + 1

\* Witness of C22: a service just constructed with the primary and the
\* second of two declared backups, the first being blank.
C22_Witness ==
    /\ rpcError = ""
    /\ NeverSelected
    /\ EndpointUrls = <<0, 2>>
    /\ EndpointPriorities = <<1, 3>>
    /\ \A k \in DOMAIN endpoints :
          endpoints[k].isHealthy /\ endpoints[k].lastHealthCheck = 0

(***************************************************************************)
(* Properties of the history scan within getDeploymentInfo (checked under  *)
(* SpecService).                                                           *)
(***************************************************************************)
\* The step in which getSignaturesForAddress is called: the account was
\* found to be a program account.
SignatureFetchStarts ==
    /\ det.pc = "accountInfo"
    /\ det'.pc = "signatures"

\* The scan of an attempt is under way.
Scanning == det.pc \in {"signatures", "transaction"}

\* C23: the account whose signatures are fetched is the programData
\* account named in the parsed data of the program account when one is
\* named, and the program account itself otherwise; the attempt makes this
\* one signature fetch and scans the history of no other account.
C23_ScannedAccount ==
    [][/\ SignatureFetchStarts =>
             /\ det'.targetAccount =
                   IF det'.programData # <<>>
                   THEN det'.programData[1] ELSE det.programId
             /\ det'.ops.rpcCalls = det.ops.rpcCalls + 1
       /\ det'.pc = "signatures" /\ det' # det => SignatureFetchStarts
       /\ Scanning /\ Scanning' =>
             /\ det'.targetAccount = det.targetAccount
             /\ det'.programData = det.programData
             /\ det'.attempts = det.attempts]_vars

\* Witness of C23: the transactions of the programData account of an
\* upgradeable program are being fetched.
C23_Witness ==
    /\ det.pc = "transaction"
    /\ det.programData = <<"test-program-data">>
    /\ det.targetAccount = "test-program-data"
    /\ det.targetAccount # det.programId

(***************************************************************************)
(* Properties of the transactions the scan cannot classify (checked under  *)
(* SpecScan).                                                              *)
(***************************************************************************)
\* getParsedTransaction gave null or a transaction without logMessages.
LacksLogs(tx) == ~tx.present \/ tx.logMessages = <<>>

\* The scan waits for the transaction of a signature whose transaction
\* lacks logs.
AtSilentTransaction ==
    /\ det.pc = "transaction"
    /\ LacksLogs(det.signatures[det.scanIdx].tx)

\* Every transaction of the signature list lacks logs.
AllSilent == \A k \in DOMAIN det.signatures : LacksLogs(det.signatures[k].tx)

\* C24: a transaction that is null or has no logs is never taken for the
\* deployment: nothing is returned or cached for it, the walk goes on to
\* the next signature in slot order, and past the last signature the
\* attempt fails with 'Could not find deployment transaction'; so does a
\* walk in which every transaction lacks logs, after fetching them all.
C24_SilentTransactionSkipped ==
    [][/\ AtSilentTransaction /\ det' # det =>
             /\ det'.result.kind # "info"
             /\ UNCHANGED cacheVars
             /\ IF det'.attempts = det.attempts
                THEN /\ det.scanIdx < Len(det.signatures)
                     /\ det'.pc = "transaction"
                     /\ det'.scanIdx = det.scanIdx + 1
                     /\ det.signatures[det.scanIdx].slot
                            <= det.signatures[det'.scanIdx].slot
                     /\ det'.fetched =
                            Append(det.fetched,
                                   det.signatures[det'.scanIdx].signature)
                ELSE /\ det'.lastError = CouldNotFindMsg
                     /\ det'.answers.history = "noMatch" =>
                            det.scanIdx = Len(det.signatures)
       /\ det.pc = "transaction" /\ AllSilent /\ det' # det
          /\ det.scanIdx = Len(det.signatures) =>
             /\ det'.attempts = det.attempts + 1
             /\ det'.lastError = CouldNotFindMsg
             /\ Len(det.fetched) = Len(det.signatures)]_vars

\* Witness of C24: a walk over three signatures, with a null transaction
\* and one without logs among them and none with logs, reached its end
\* and the attempt failed.
C24_Witness ==
    /\ det.answers.history = "noMatch"
    /\ det.lastError = CouldNotFindMsg
    /\ Len(det.signatures) = 3
    /\ Len(det.fetched) = 3
    /\ AllSilent
    /\ \E j, k \in DOMAIN det.signatures :
          /\ ~det.signatures[j].tx.present
          /\ det.signatures[k].tx.present

(***************************************************************************)
(* Properties of the endpoint list over the life of the RpcService         *)
(* (checked under SpecRpc).                                                *)
(***************************************************************************)
\* The list is sorted ascending by priority.
SortedByPriority(list) ==
    \A j, k \in DOMAIN list : j < k => list[j].priority < list[k].priority

\* Endpoint k of the list is the one whose probe the selection call waits
\* for.
BeingProbed(k) == sel.pc = "probe" /\ sel.ep + 1 = k

\* C25: the endpoint list is sorted ascending by priority in every state
\* and keeps its members and their order; of an endpoint only isHealthy and
\* lastHealthCheck ever change, only in the step in which its probe
\* answers, and both are written in that step: lastHealthCheck moves
\* forward to the time read before the probe whenever isHealthy is set.
C25_EndpointListFrame ==
    [][/\ SortedByPriority(endpoints)
       /\ SortedByPriority(endpoints')
       /\ DOMAIN endpoints' = DOMAIN endpoints
       /\ \A k \in DOMAIN endpoints :
             /\ endpoints'[k].url = endpoints[k].url
             /\ endpoints'[k].priority = endpoints[k].priority
             /\ endpoints'[k] # endpoints[k] => BeingProbed(k)
             /\ BeingProbed(k) /\ sel' # sel =>
                   /\ endpoints'[k].lastHealthCheck = sel.now
                   /\ endpoints'[k].lastHealthCheck
                         > endpoints[k].lastHealthCheck]_vars

\* Witness of C25: three endpoints in the order of construction, the
\* first probed unhealthy, the second probed healthy at a later time and
\* the third never probed.
C25_Witness ==
    /\ EndpointUrls = <<0, 1, 2>>
    /\ EndpointPriorities = <<1, 2, 3>>
    /\ ~endpoints[1].isHealthy
    /\ endpoints[2].isHealthy
    /\ endpoints[2].lastHealthCheck > endpoints[1].lastHealthCheck
    /\ endpoints[1].lastHealthCheck > 0
    /\ endpoints[3].lastHealthCheck = 0

(***************************************************************************)
(* Properties of the health probe (checked under SpecRpc).                 *)
(***************************************************************************)
\* The step in which getSlot answers or throws for the endpoint probed.
ProbeAnswerStep ==
    /\ sel.pc = "probe"
    /\ sel' # sel

\* getSlot returned a number greater than 0.
PositiveSlot(response) == response.kind = "number" /\ response.value > 0

\* C26: the probe marks the endpoint healthy exactly when getSlot returned
\* a positive number; a throw, a number that is not positive and a value
\* that is no number mark it unhealthy.  A failed probe does not raise out
\* of the selection call: the call goes on after the probe, and the only
\* error a selection call ever throws is the one for no healthy endpoint.
C26_ProbeVerdict ==
    [][/\ ProbeAnswerStep =>
             /\ sel'.response # <<>>
             /\ endpoints'[sel.ep + 1].isHealthy
                   <=> PositiveSlot(sel'.response[1])
             /\ sel'.pc = "updated"
             /\ sel'.error = ""
       /\ sel'.pc = "threw" =>
             /\ sel'.error = NoHealthyMsg
             /\ \A k \in DOMAIN endpoints : ~endpoints'[k].isHealthy]_vars

\* Witness of C26: getSlot threw for the endpoint probed, the endpoint is
\* marked unhealthy and the selection call goes on.
C26_Witness ==
    /\ sel.pc = "updated"
    /\ sel.response # <<>>
    /\ sel.response[1].kind = "throw"
    /\ ~endpoints[sel.ep + 1].isHealthy
    /\ sel.error = ""

(***************************************************************************)
(* Properties of cached entries with deploymentTimestamp 0 (checked under  *)
(* Spec).                                                                  *)
(***************************************************************************)
\* The getDeploymentInfo call of the state looked up its programId in the
\* cache and is the last to have used the cache.
LookedUp ==
    /\ det.pc # "idle"
    /\ det.ops.cacheReads = 1
    /\ lastCache.op = "getCachedDeployment"
    /\ lastCache.programId = det.programId

\* The lookup found an entry with deploymentTimestamp 0 that was not older
\* than 24 h.
FoundZeroTimestamp ==
    /\ lastCache.before # <<>>
    /\ lastCache.before[1].deploymentTimestamp = 0
    /\ lastCache.before[1].lastChecked # <<>>
    /\ lastCache.at - lastCache.before[1].lastChecked[1] <= TwentyFourHours

\* C27: a cached entry not older than 24 h whose deploymentTimestamp is 0
\* is a cache hit: getCachedDeployment returns it and leaves it in the
\* map, and getDeploymentInfo returns its signature and slot with
\* timestamp 0 without an attempt, an endpoint acquisition, a probe or an
\* RPC call.
C27_ZeroTimestampIsHit ==
    LookedUp /\ FoundZeroTimestamp =>
       /\ lastCache.ret = lastCache.before
       /\ lastCache.save = "none"
       /\ MapGet(cache, det.programId) = lastCache.before
       /\ det.pc = "done"
       /\ det.result.kind = "info"
       /\ det.result.info[1].timestamp = 0
       /\ det.result.info[1].signature
             = lastCache.before[1].deploymentSignature
       /\ det.result.info[1].slot = lastCache.before[1].deploymentSlot
       /\ det.attempts = 0
       /\ det.ops.acquisitions = 0
       /\ det.ops.probes = 0
       /\ det.ops.rpcCalls = 0
       /\ det.ops.cacheWrites = 0

\* Witness of C27: getDeploymentInfo returned timestamp 0 from a cached
\* entry with deploymentTimestamp 0.
C27_Witness ==
    /\ LookedUp
    /\ FoundZeroTimestamp
    /\ det.pc = "done"
    /\ det.result.kind = "info"
    /\ det.result.info[1].timestamp = 0
    /\ det.ops.rpcCalls = 0

(***************************************************************************)
(* Properties of the records a cache call leaves alone (checked under      *)
(* SpecCache).                                                             *)
(***************************************************************************)
\* A step that is a call of cacheDeployment / of getCachedDeployment.
PutStep == lastCache'.op = "cacheDeployment" /\ lastCache' # lastCache
GetStep == lastCache'.op = "getCachedDeployment" /\ lastCache' # lastCache

\* The records of every programId other than the one of the call are the
\* same before and after the step.
OtherRecordsKept ==
    \A k \in (DOMAIN cache \cup DOMAIN cache') \ {lastCache'.programId} :
        /\ k \in DOMAIN cache
        /\ k \in DOMAIN cache'
        /\ cache'[k] = cache[k]

\* C28: cacheDeployment replaces the record of its programId wholesale:
\* the record after the call consists of the programId, the values given
\* and lastChecked at the time of the write, whatever was stored before;
\* the records of all other programIds stay as they were.  A
\* getCachedDeployment that evicts removes the record of its programId
\* and no other.
C28_PutReplacesOnlyItsRecord ==
    [][/\ PutStep =>
             LET given == lastCache'.input[1]
             IN  /\ lastCache'.programId \in DOMAIN cache'
                 /\ cache'[lastCache'.programId] =
                       [programId |-> lastCache'.programId,
                        deploymentSignature |-> given.deploymentSignature,
                        deploymentSlot |-> given.deploymentSlot,
                        deploymentTimestamp |-> given.deploymentTimestamp,
                        lastChecked |-> <<now>>,
                        isProgramData |-> given.isProgramData,
                        programDataAccount |-> given.programDataAccount]
                 /\ OtherRecordsKept
       /\ GetStep =>
             /\ OtherRecordsKept
             /\ DOMAIN cache' \subseteq DOMAIN cache
             /\ cache' # cache =>
                   DOMAIN cache' = DOMAIN cache \ {lastCache'.programId}]_vars

\* Witness of C28: a record with a programDataAccount was replaced at a
\* later time by one without, of which nothing of the old record is left,
\* while the record of the other program is still in the map.
C28_Witness ==
    /\ lastCache.op = "cacheDeployment"
    /\ lastCache.before # <<>>
    /\ lastCache.before[1].programDataAccount # <<>>
    /\ lastCache.before[1].lastChecked[1] < lastCache.at
    /\ cache[lastCache.programId].programDataAccount = <<>>
    /\ cache[lastCache.programId].lastChecked = <<lastCache.at>>
    /\ OtherProgram \in DOMAIN cache
    /\ lastCache.programId # OtherProgram

(***************************************************************************)
(* Termination of getDeploymentInfo (checked under SpecRun).               *)
(***************************************************************************)
\* A getDeploymentInfo call is in progress / has returned or thrown.
DetectRunning == det.pc \notin {"idle", "done"}
DetectEnded == det.pc = "done"

\* The bounds of a run: at most 3 failed attempts, in a selection call at
\* most as many endpoints considered as there are, and in an attempt the
\* transactions of the first signatures of the list fetched once each.
RunBounded ==
    /\ det.attempts <= 3
    /\ Len(sel.considered) <= NumEndpoints
    /\ Len(det.fetched) <= Len(det.signatures)
    /\ \A k \in DOMAIN det.fetched :
          det.fetched[k] = det.signatures[k].signature

\* A run ends with a result, or with an error after 3 failed attempts.
EndsWithResultOrExhausted ==
    DetectEnded =>
       \/ det.result.kind \in {"native", "info"}
       \/ det.result.kind = "error" /\ det.attempts = 3

\* C29: when every awaited RPC call and probe answers or throws, every
\* getDeploymentInfo call ends: with a result, or with an error once its 3
\* attempts are used up; on the way each selection call considers at most
\* as many endpoints as there are and each attempt fetches at most one
\* transaction per signature of its list.
C29_DetectTerminates ==
    /\ [](RunBounded /\ EndsWithResultOrExhausted)
    /\ DetectRunning ~> DetectEnded

\* Witness of C29: a call ended after 3 failed attempts, the last of which
\* considered both endpoints and walked its whole signature list.
C29_Witness ==
    /\ DetectEnded
    /\ det.result.kind = "error"
    /\ det.attempts = 3
    /\ det.ops.acquisitions = 3
    /\ det.signatures # <<>>
    /\ Len(det.fetched) = Len(det.signatures)
    /\ NumEndpoints = 2

(***************************************************************************)
(* Properties of the cache document against the map (checked under         *)
(* SpecCache).                                                             *)
(***************************************************************************)
\* The last call changed the map and its write of the document succeeded:
\* a cacheDeployment, or a getCachedDeployment that evicted.
WroteDocument ==
    /\ lastCache.op \in {"cacheDeployment", "getCachedDeployment"}
    /\ lastCache.save = "ok"

\* The last call was a clearCache whose removal of the file succeeded.
ClearedFiles ==
    /\ lastCache.op = "clearCache"
    /\ lastCache.removal = "ok"

\* The map a CacheService constructed now would load.
Reloaded == loadCache(disk)

\* C30: after a cacheDeployment or an evicting getCachedDeployment whose
\* write succeeded, a CacheService constructed from the document holds
\* exactly the records of the map of the service that wrote it; after a
\* clearCache whose removal succeeded the file is gone and a new service
\* is empty, as is the map.
C30_DocumentMirrorsMap ==
    /\ WroteDocument =>
          /\ disk.file # <<>>
          /\ DOMAIN Reloaded = DOMAIN cache
          /\ \A k \in DOMAIN cache : Reloaded[k] = cache[k]
    /\ ClearedFiles =>
          /\ disk.file = <<>>
          /\ DOMAIN Reloaded = {}
          /\ DOMAIN cache = {}

\* Witness of C30: an eviction whose write succeeded left the record of
\* the other program, one without lastChecked, in the map and in the
\* document alike.
C30_Witness ==
    /\ lastCache.op = "getCachedDeployment"
    /\ lastCache.save = "ok"
    /\ lastCache.before # <<>>
    /\ lastCache.ret = <<>>
    /\ DOMAIN cache = CacheKeys \ {lastCache.programId}
    /\ \A k \in DOMAIN cache : cache[k].lastChecked = <<>>
    /\ Reloaded = cache

(***************************************************************************)
(* Properties of a getDeploymentInfo call that follows a successful one    *)
(* (checked under SpecService).                                            *)
(***************************************************************************)
\* A step that is a getDeploymentInfo call answered from the cache, for the
\* programId of an upgradeable program whose deployment the call before it
\* found by a scan and cached.
HitAfterScanStep ==
    /\ det.pc = "done"
    /\ det.result.kind = "info"
    /\ det.programData # <<>>
    /\ lastCache.op = "cacheDeployment"
    /\ lastCache.programId = det.programId
    /\ lastCache'.op = "getCachedDeployment"
    /\ det'.programId = det.programId
    /\ det'.pc = "done"
    /\ det'.result.kind = "info"

\* C31: for an upgradeable program the result getDeploymentInfo returns
\* from a successful scan equals, field for field including
\* programDataAccount, the result the next call for the same programId
\* returns from the cache.
C31_ScanResultEqualsCachedResult ==
    [][HitAfterScanStep => det'.result.info = det.result.info]_vars

(***************************************************************************)
(* Properties of the endpoint an attempt acquires after a failed attempt   *)
(* (checked under SpecRun).                                                *)
(***************************************************************************)
\* A step in which an attempt acquires its endpoint after the attempt
\* before it acquired endpoint det.connection and failed because
\* getParsedAccountInfo threw on it.
AcquiredAfterRpcThrowStep ==
    /\ det.pc = "acquire"
    /\ det'.pc = "accountInfo"
    /\ det.attempts >= 1
    /\ det.lastError = RpcFailureMsg

\* An endpoint other than the one with index idx is healthy.
OtherEndpointHealthy(idx) ==
    \E k \in DOMAIN endpoints : k # idx + 1 /\ endpoints[k].isHealthy

\* C32: within one getDeploymentInfo call, when an attempt failed because
\* an RPC call on its endpoint threw and another endpoint is healthy, the
\* next attempt acquires a different endpoint.
C32_NextAttemptOtherEndpoint ==
    [][AcquiredAfterRpcThrowStep /\ OtherEndpointHealthy(det.connection) =>
          det'.connection # det.connection]_vars

(***************************************************************************)
(* Properties of the cache over a getDeploymentInfo call that fails        *)
(* (checked under SpecService).                                            *)
(***************************************************************************)
\* A step that starts a getDeploymentInfo call for a program id that is not
\* native: the cache is read, and on a miss the first attempt begins.
LookupStep ==
    /\ DetQuiet
    /\ det' # det
    /\ det'.programId \notin NATIVE_PROGRAMS

\* The step changes the map, if at all, by removing the record of the
\* requested programId, which was older than 24 h.
OnlyEvictsRequested ==
    \/ cache' = cache
    \/ /\ lastCache'.before # <<>>
       /\ lastCache'.before[1].lastChecked # <<>>
       /\ now - lastCache'.before[1].lastChecked[1] > TwentyFourHours
       /\ det'.programId \in DOMAIN cache
       /\ DOMAIN cache' = DOMAIN cache \ {det'.programId}
       /\ \A k \in DOMAIN cache' : cache'[k] = cache[k]

\* C33: a getDeploymentInfo call in which every attempt fails never adds
\* or overwrites a record of the cache.  Its read of the cache can only
\* evict the expired record of the requested programId; every later step
\* of the call except the return of a successful attempt leaves the map
\* and the document alone; and when it throws, no cacheDeployment was made
\* and the map has no record of the programId.
C33_FailedRunCachesNothing ==
    [][/\ LookupStep /\ det'.pc # "done" => OnlyEvictsRequested
       /\ AttemptInProgress /\ ~AttemptSucceedsStep => UNCHANGED cacheVars
       /\ ExhaustedStep =>
             /\ lastCache'.op = "getCachedDeployment"
             /\ lastCache'.programId = det.programId
             /\ det.programId \notin DOMAIN cache'
             /\ det'.ops.cacheWrites =
                   IF lastCache'.before = <<>> THEN 0 ELSE 1]_vars

\* Witness of C33: a call whose read evicted the expired record threw after
\* an attempt that walked a signature list without finding the
\* deployment; the map is empty.
C33_Witness ==
    /\ det.pc = "done"
    /\ det.result.kind = "error"
    /\ det.answers.history = "noMatch"
    /\ lastCache.op = "getCachedDeployment"
    /\ lastCache.before # <<>>
    /\ lastCache.programId = det.programId
    /\ det.ops.cacheWrites = 1
    /\ DOMAIN cache = {}

(***************************************************************************)
(* C34: an outage of every endpoint during one getDeploymentInfo call.     *)
(***************************************************************************)
\* The call of the state has made no RPC call although at least one attempt
\* has failed: every attempt so far, the first included, ended in
\* getNextHealthyConnection finding every endpoint unhealthy.  Less than
\* 5 minutes have passed since the call started with its cache lookup.
OutageSoFar ==
    /\ LookedUp
    /\ det.attempts >= 1
    /\ det.ops.rpcCalls = 0
    /\ now - lastCache.at < FiveMinutes

\* The health probes made by the attempts before the current one.
ProbesOfEarlierAttempts ==
    det.ops.probes - (IF det.pc = "acquire" THEN Len(sel.probed) ELSE 0)

\* The statement of C34 as written: once the first attempt has found every
\* endpoint unhealthy and while less than 5 minutes have passed, the
\* selection call of a later attempt probes no endpoint.
C34_LaterAttemptsNeverProbe ==
    OutageSoFar /\ det.pc = "acquire" => sel.probed = <<>>

\* C34 (amended): when the earlier attempts of a getDeploymentInfo call have
\* probed every endpoint and found each unhealthy, and less than 5 minutes
\* have passed since the call started, a later attempt performs no health
\* probe and no RPC call, every endpoint stays marked unhealthy, and the
\* call fails with 'No healthy RPC endpoints available' after exactly 3
\* getNextHealthyConnection calls.
C34_OutageWithoutFurtherProbes ==
    OutageSoFar /\ ProbesOfEarlierAttempts = NumEndpoints =>
        /\ \A k \in DOMAIN endpoints :
               /\ ~endpoints[k].isHealthy
               /\ endpoints[k].lastHealthCheck >= lastCache.at
        /\ det.pc \in {"acquire", "done"}
        /\ det.pc = "acquire" => sel.probed = <<>>
        /\ det.pc = "done" =>
               /\ det.result.kind = "error"
               /\ det.result.error = NoHealthyMsg
               /\ det.attempts = maxAttempts
               /\ det.ops.acquisitions = 3
               /\ det.ops.probes = NumEndpoints

\* Witness: with two endpoints, a call has failed with the exhausted error
\* after 3 selection calls, 2 probes and no RPC call, within 5 minutes.
C34_Witness ==
    /\ OutageSoFar
    /\ det.pc = "done"
    /\ NumEndpoints = 2
    /\ det.ops.probes = 2
    /\ det.ops.acquisitions = 3
    /\ det.result.kind = "error"
    /\ det.result.error = NoHealthyMsg

(***************************************************************************)
(* C35: an unhealthy endpoint is probed again after 5 minutes.             *)
(***************************************************************************)
\* A selection call has taken endpoint sel.ep at the loop head and its probe,
\* if any, has not answered yet: the endpoint is as the call found it.
JustConsidered ==
    \/ sel.pc = "probe"
    \/ sel.pc = "updated" /\ sel.response = <<>>

\* The endpoint the call is at was marked unhealthy by a probe made more
\* than 5 minutes before the call took it.
StaleUnhealthy ==
    LET endpoint == endpoints[sel.ep + 1]
    IN  /\ ~endpoint.isHealthy
        /\ sel.now - endpoint.lastHealthCheck > FiveMinutes

\* The probe of the endpoint the call is at has answered a positive slot.
ProbeSucceeded ==
    /\ sel.pc = "updated"
    /\ sel.response # <<>>
    /\ PositiveSlot(sel.response[1])

\* C35: a selection call that takes an endpoint marked unhealthy by a probe
\* more than 5 minutes old probes it again, whichever method the call is;
\* and when a probe succeeds the endpoint is marked healthy and the same
\* call returns it.  No endpoint is excluded permanently.
C35_UnhealthyEndpointProbedAgain ==
    [][/\ JustConsidered /\ StaleUnhealthy =>
             /\ sel.pc = "probe"
             /\ sel.probed # <<>>
             /\ sel.probed[Len(sel.probed)] = sel.ep
       /\ ProbeSucceeded /\ sel' # sel =>
             /\ endpoints[sel.ep + 1].isHealthy
             /\ sel'.pc = "returned"
             /\ sel'.result = sel.ep]_vars

\* Witness: the only endpoint was found unhealthy by the call before (which
\* threw); the current call took it more than 5 minutes after that probe,
\* probed it and returned it.
C35_Witness ==
    /\ NumEndpoints = 1
    /\ prevSel.op # "none"
    /\ prevSel.result = -1
    /\ sel.pc = "returned"
    /\ sel.result = 0
    /\ sel.probed = <<0>>
    /\ Len(sel.ages) = 1
    /\ sel.ages[1] > FiveMinutes
    /\ sel.ages[1] < StartTime

(***************************************************************************)
(* C36: getCachedDeployment against getCacheStats.                         *)
(***************************************************************************)
\* What getCacheStats counts for an entry alone in the map at time t.
StatsOfEntry(entry, t) == CacheStats(MapSet(EmptyMap, entry.programId, entry), t)

\* The last call was a getCachedDeployment that found an entry.
LookupFoundEntry ==
    /\ lastCache.op = "getCachedDeployment"
    /\ lastCache.before # <<>>

\* C36: for every entry of the map, the entries loaded from the cache file
\* included, getCachedDeployment returns the entry exactly when getCacheStats
\* counts it valid at the same instant, and deletes it exactly when
\* getCacheStats counts it expired.
C36_GetAgreesWithStats ==
    LookupFoundEntry =>
        LET counts == StatsOfEntry(lastCache.before[1], lastCache.at)
        IN  /\ lastCache.ret # <<>> <=> counts.valid = 1
            /\ lastCache.programId \notin DOMAIN cache <=> counts.expired = 1

(***************************************************************************)
(* C37: two getNextHealthyConnection calls interleaved at their awaits.    *)
(***************************************************************************)
\* The endpoints (0-based indexes) the call of frame f has taken.
ConsideredBy(f) == {f.considered[j] : j \in 1..Len(f.considered)}

AllIndexes == 0..(NumEndpoints - 1)

\* The call of frame f has thrown 'No healthy RPC endpoints available'.
Exhausted(f) == f.pc = "threw" /\ f.error = NoHealthyMsg

\* The statement of C37 for one call: it has failed only after taking every
\* endpoint.
FailedOnlyAfterAll(f) == Exhausted(f) => ConsideredBy(f) = AllIndexes

\* The statement of C37 as written: whichever way the two calls interleave,
\* a call that failed has itself considered every endpoint.
C37_InterleavedCallsConsiderAll ==
    FailedOnlyAfterAll(sel) /\ FailedOnlyAfterAll(peer.sel)

\* The step in which the call of frame f (g after the step) throws.
Throws(f, g) == f.pc = "updated" /\ g.pc = "threw"

\* What holds of a call that throws: it has gone N times round its loop,
\* and the endpoint it took last is marked unhealthy.  If no other call was
\* in progress during it, it has taken every endpoint, all are marked
\* unhealthy, and the cursor is back where the call found it.
ThrowsExhausted(f, g) ==
    Throws(f, g) =>
        /\ g.error = NoHealthyMsg
        /\ Len(g.considered) = NumEndpoints
        /\ ~endpoints[f.ep + 1].isHealthy
        /\ ~g.overlapped =>
              /\ ConsideredBy(g) = AllIndexes
              /\ \A k \in DOMAIN endpoints : ~endpoints'[k].isHealthy
              /\ currentEndpointIndex' = g.startIndex

\* C37 (amended): a getNextHealthyConnection call fails only after N turns
\* of its loop, each finding the endpoint under the shared cursor unhealthy.
\* A call during which no other call is in progress has then considered
\* every endpoint and found each unhealthy; a call interleaved with another
\* has taken its endpoints from a cursor that the other call moves too.
C37_FailureAfterNTurns ==
    [][ThrowsExhausted(sel, sel') /\ ThrowsExhausted(peer.sel, peer'.sel)]_vars

\* Witness: with two endpoints, a call interleaved with another has failed
\* after taking endpoint 0 twice, while endpoint 1, which it never took, is
\* marked healthy.
C37_Witness ==
    /\ NumEndpoints = 2
    /\ Exhausted(peer.sel)
    /\ peer.sel.overlapped
    /\ peer.sel.considered = <<0, 0>>
    /\ endpoints[2].isHealthy

(***************************************************************************)
(* C38: two CacheService instances over one cache file.                    *)
(***************************************************************************)
\* The cache file holds, under programId, the entry that Map mp holds.
FileHolds(programId, mp) ==
    /\ disk.file # <<>>
    /\ disk.file[1].kind = "json"
    /\ programId \in DOMAIN disk.file[1].entries
    /\ programId \in DOMAIN mp
    /\ disk.file[1].entries[programId] = StringifyEntry(mp[programId])

\* Both instances have cached their program and written the file.
BothPersisted == peer.persisted = {TestProgram, OtherProgram}

\* The statement of C38 as written: once both instances have loaded the
\* file and each has written its record, the file holds both records.
C38_BothRecordsInDocument ==
    BothPersisted =>
        /\ disk.file # <<>>
        /\ {TestProgram, OtherProgram} \subseteq DOMAIN disk.file[1].entries

\* The Map of the CacheService that wrote the file last.
LastWritersMap == IF peer.lastWriter = "first" THEN cache ELSE peer.cache

\* The record the other CacheService wrote.
OthersProgram == IF peer.lastWriter = "first" THEN OtherProgram ELSE TestProgram

\* The file as the last writer left it: its own Map, whole.  It holds the
\* writer's own record, and a record of the other instance only if the
\* writer has one in its Map.
FileIsLastWritersMap ==
    /\ disk.file = <<StringifyCache(LastWritersMap)>>
    /\ peer.lastWriter = "first" => FileHolds(TestProgram, cache)
    /\ peer.lastWriter = "second" => FileHolds(OtherProgram, peer.cache)
    /\ OthersProgram \in DOMAIN disk.file[1].entries
          <=> OthersProgram \in DOMAIN LastWritersMap

\* A cacheDeployment call of either instance writes the file.
WriteStep ==
    /\ peer'.loaded = peer.loaded
    /\ <<cache, disk, peer>>' # <<cache, disk, peer>>
    /\ lastCache'.op = "cacheDeployment"
    /\ lastCache'.save = "ok"

\* C38 (amended): every write replaces the cache file by the Map of the
\* instance that writes, whole: the file then holds that instance's own
\* record, and it holds a record of the other instance only if the writer
\* has one in its own Map, that is, only if it loaded the file after the
\* other's write.  A record the other instance wrote in between is lost.
C38_LastWriterWins ==
    [][WriteStep => FileIsLastWritersMap']_vars

\* Witness: both instances have written their record; the second wrote
\* last, from a Map loaded before the first's write, and the file has no
\* record of TestProgram.
C38_Witness ==
    /\ BothPersisted
    /\ peer.lastWriter = "second"
    /\ TestProgram \in DOMAIN cache
    /\ FileHolds(OtherProgram, peer.cache)
    /\ TestProgram \notin DOMAIN disk.file[1].entries

(***************************************************************************)
(* C39: the round-robin cursor under sequential use.                       *)
(***************************************************************************)
\* The last selection call was a getNextHealthyConnection that threw.
NextCallThrew ==
    /\ sel.op = "getNextHealthyConnection"
    /\ sel.pc = "threw"

\* C39: in every state of an RpcService that was constructed, the cursor is
\* an index of the endpoint list, 0..N-1; and after a
\* getNextHealthyConnection call has thrown 'No healthy RPC endpoints
\* available' the cursor is where it was when the call started.
C39_CursorInRange ==
    rpcError = "" =>
        /\ currentEndpointIndex \in 0..(Len(endpoints) - 1)
        /\ NextCallThrew =>
              /\ sel.error = NoHealthyMsg
              /\ currentEndpointIndex = sel.startIndex

\* Witness: with three endpoints, a getNextHealthyConnection call that
\* started at index 1 has thrown after going round the list, and the cursor
\* is at 1 again.
C39_Witness ==
    /\ Len(endpoints) = 3
    /\ NextCallThrew
    /\ sel.startIndex = 1
    /\ sel.considered = <<1, 2, 0>>
    /\ currentEndpointIndex = 1

=============================================================================
